---- MODULE Spec2Model ----
(***************************************************************************)
(* Content revisioning, dynamic fields and comment threads of drupal-rust. *)
(* The backing MySQL tables are the state; every SQL statement a handler   *)
(* issues through the shared pool is one atomic step, and nothing in the   *)
(* source opens a transaction, so the steps of concurrent requests         *)
(* interleave freely.                                                      *)
(*                                                                         *)
(* Strings that the code inspects character by character (thread paths,    *)
(* vancode digit groups) are sequences of ASCII codes, so that ordering,   *)
(* prefix matching and base-36 decoding are computed and not assumed.      *)
(***************************************************************************)
EXTENDS Integers, Sequences, FiniteSets, TLC

VARIABLES
    node,        \* table node: rows [nid, vid, type, title]
    revisions,   \* table node_revisions: rows [vid, nid, uid, title, body]
    fieldData,   \* table node_field_data: rows [nid, vid, field_name, delta, value_text, value_int]
    comments,    \* table comments: rows [cid, pid, nid, uid, name, timestamp, status, thread]
    stats,       \* table node_comment_statistics: rows keyed by nid
    nextNid,     \* AUTO_INCREMENT counter of node.nid
    nextVid,     \* AUTO_INCREMENT counter of node_revisions.vid
    nextCid,     \* AUTO_INCREMENT counter of comments.cid
    now,         \* the wall clock, in seconds
    ctask,       \* comment requests in flight: per task, its position and locals
    ntask,       \* content requests in flight: per task, its position and locals
    probe        \* a function of the program applied on its own: input and result

vars ==
    <<node, revisions, fieldData, comments, stats, nextNid, nextVid, nextCid, now, ctask,
      ntask, probe>>

contentVars == <<node, revisions, fieldData, nextNid, nextVid, ntask>>
commentVars == <<comments, stats, nextCid, now, ctask>>

-----------------------------------------------------------------------------
(* Bounds of the model. *)

MaxCid == 2          \* comments ever inserted, requests with any poster and status
MaxTime == 2         \* clock values 1..MaxTime
MaxThreadCid == 4    \* comments ever inserted, requests of one poster within one second
MaxVid == 3          \* revisions ever inserted
MaxNidIssued == 2    \* content items ever inserted
MaxFieldVid == 2     \* revisions ever inserted while the field engine is exercised
MaxDeepCid == 6      \* comments ever inserted on the site with three replies
MaxCodecSmall == 1296  \* path numbers 0..MaxCodecSmall are all encoded
MaxCodecPair == 40   \* path numbers 0..MaxCodecPair are compared with every number

Tasks == {"t1", "t2"}
SeqTasks == {"t1"}

-----------------------------------------------------------------------------
(* Program constants. *)

COMMENT_PUBLISHED == 0
COMMENT_NOT_PUBLISHED == 1
COMMENT_NODE_DISABLED == 0
COMMENT_NODE_READ_ONLY == 1
COMMENT_NODE_READ_WRITE == 2
CommentModes == {COMMENT_NODE_DISABLED, COMMENT_NODE_READ_ONLY, COMMENT_NODE_READ_WRITE}
VancodeRadix == 36
VancodeMinWidth == 2

CH_DOT == 46      \* '.'
CH_SLASH == 47    \* '/'
CH_0 == 48        \* '0'
CH_a == 97        \* 'a'

NULL == "NULL"

-----------------------------------------------------------------------------
(* Strings as sequences of ASCII codes. *)

Min(a, b) == IF a < b THEN a ELSE b

\* Byte-wise string order, as MySQL's ORDER BY gives on digits, lower-case
\* letters, '.' and '/': a proper prefix sorts first.
RECURSIVE StrLess(_, _)
StrLess(a, b) ==
    IF b = <<>> THEN FALSE
    ELSE IF a = <<>> THEN TRUE
    ELSE IF Head(a) # Head(b) THEN Head(a) < Head(b)
    ELSE StrLess(Tail(a), Tail(b))

StartsWith(s, p) == Len(s) >= Len(p) /\ SubSeq(s, 1, Len(p)) = p

\* str::trim_end_matches('/')
RECURSIVE TrimEndSlash(_)
TrimEndSlash(s) ==
    IF s # <<>> /\ s[Len(s)] = CH_SLASH THEN TrimEndSlash(SubSeq(s, 1, Len(s) - 1)) ELSE s

\* SUBSTRING(thread, 1, LENGTH(thread) - 1)
DropLast(s) == IF s = <<>> THEN s ELSE SubSeq(s, 1, Len(s) - 1)

\* str::rfind('.'): the 1-based position of the last '.', 0 when there is none
RfindDot(s) ==
    LET ps == {i \in 1..Len(s) : s[i] = CH_DOT}
    IN IF ps = {} THEN 0 ELSE CHOOSE i \in ps : \A j \in ps : j <= i

\* ORDER BY thread DESC LIMIT 1 on a non-empty result
MaxStr(S) == CHOOSE x \in S : \A y \in S : ~StrLess(x, y)

\* ORDER BY SUBSTRING(thread, 1, LENGTH(thread) - 1) DESC LIMIT 1
MaxStrippedStr(S) == CHOOSE x \in S : \A y \in S : ~StrLess(DropLast(x), DropLast(y))

-----------------------------------------------------------------------------
(* Vancode codec. *)

\* A u32 as <<high half, low half>>, the halves below Limb: the path numbers
\* are u32 and the greatest of them is beyond the integers of the checker
Limb == 65536
U32(i) == <<i \div Limb, i % Limb>>
U32Value(n) == n[1] * Limb + n[2]
U32Less(a, b) == a[1] < b[1] \/ (a[1] = b[1] /\ a[2] < b[2])

\* n / 36 and n % 36
U32Div(n) ==
    LET low == (n[1] % VancodeRadix) * Limb + n[2]
    IN <<n[1] \div VancodeRadix, low \div VancodeRadix>>
U32Mod(n) == ((n[1] % VancodeRadix) * Limb + n[2]) % VancodeRadix

\* result * 36 + digit: the value modulo 2^32, and whether it went beyond u32
\* (an overflow panics in a debug build and wraps in a release build)
U32MulAdd(acc, digit) ==
    LET low == acc.value[2] * VancodeRadix + digit
        high == acc.value[1] * VancodeRadix + low \div Limb
    IN [value |-> <<high % Limb, low % Limb>>, overflow |-> acc.overflow \/ high >= Limb]

DigitChar(d) == IF d < 10 THEN CH_0 + d ELSE CH_a + d - 10

\* Mutant: each digit is pushed at the end of the result
RECURSIVE VancodeDigits_push(_)
VancodeDigits_push(n) ==
    IF n = <<0, 0>> THEN <<>>
    ELSE <<DigitChar(U32Mod(n))>> \o VancodeDigits_push(U32Div(n))

\* while n > 0 { result.insert(0, c); n /= 36 }
RECURSIVE VancodeDigits(_)
VancodeDigits(n) ==
    IF n = <<0, 0>> THEN <<>>
    ELSE Append(VancodeDigits(U32Div(n)), DigitChar(U32Mod(n)))

\* Mutant: no padding
PadLeft_none(s) == s

\* while result.len() < 2 { result.insert(0, '0') }
RECURSIVE PadLeft(_)
PadLeft(s) == IF Len(s) < VancodeMinWidth THEN PadLeft(<<CH_0>> \o s) ELSE s

int_to_vancode(i) == IF i = <<0, 0>> THEN <<CH_0, CH_0>> ELSE PadLeft(VancodeDigits(i))

\* Mutant: only the decimal digits count
CharDigit_decimal(c) == IF c >= CH_0 /\ c <= CH_0 + 9 THEN c - CH_0 ELSE 0

CharDigit(c) ==
    IF c >= CH_0 /\ c <= CH_0 + 9 THEN c - CH_0
    ELSE IF c >= CH_a /\ c <= CH_a + 25 THEN c - CH_a + 10
    ELSE 0

RECURSIVE VancodeFold(_, _)
VancodeFold(s, acc) ==
    IF s = <<>> THEN acc
    ELSE VancodeFold(Tail(s), U32MulAdd(acc, CharDigit(Head(s))))

vancode_to_int(s) == VancodeFold(s, [value |-> <<0, 0>>, overflow |-> FALSE]).value

\* vancode_to_int panics in a debug build
vancode_to_int_overflows(s) ==
    VancodeFold(s, [value |-> <<0, 0>>, overflow |-> FALSE]).overflow

-----------------------------------------------------------------------------
(* Rows and request inputs. *)

\* Who posts: the anonymous visitor, who must give a name, and a logged-in
\* user, whose form carries none.
Authors == {[uid |-> 0, name |-> "anon"], [uid |-> 1, name |-> NULL]}

Statuses == {COMMENT_PUBLISHED, COMMENT_NOT_PUBLISHED}

\* The requests a specification draws: posters, moderation decisions, the
\* number of comments ever inserted and the clock's range
AnyRequest == [authors |-> Authors, statuses |-> Statuses, maxCid |-> MaxCid, maxTime |-> MaxTime]
ThreadRequest ==
    [authors |-> {[uid |-> 1, name |-> NULL]}, statuses |-> {COMMENT_PUBLISHED},
     maxCid |-> MaxThreadCid, maxTime |-> 1]

\* Option<(timestamp, uid, name)> of recalculate_statistics
NoLatest == [some |-> FALSE, timestamp |-> 0, uid |-> 0, name |-> NULL]

IdleC ==
    [pc |-> "idle", op |-> "none", nid |-> 0, pid |-> 0, cid |-> 0, uid |-> 0,
     name |-> NULL, status |-> 0, ts |-> 0, pthread |-> <<>>, thread |-> <<>>,
     found |-> FALSE, latest |-> NoLatest, count |-> 0,
     subject |-> "s1", body |-> "b1", err |-> "none"]

-----------------------------------------------------------------------------
(* Queries on the comment tables. *)

\* SELECT * FROM comments WHERE cid = ?   (fetch_optional: no row or one)
find_by_cid(cid) == {c \in comments : c.cid = cid}

\* SELECT ... FROM node n INNER JOIN node_revisions nr ON n.vid = nr.vid WHERE n.nid = ?
find_with_body(nid) == {n \in node : n.nid = nid /\ \E r \in revisions : r.vid = n.vid}

\* Mutant: the sort key is the whole path
ThreadSortKey_whole(thread) == thread

\* SUBSTRING(c.thread, 1, LENGTH(c.thread) - 1), the sort key of find_for_node
ThreadSortKey(thread) == DropLast(thread)

\* ORDER BY the sort key, ascending; rows of equal key come in the order the
\* server happens to choose
RECURSIVE OrderByThread(_)
OrderByThread(S) ==
    IF S = {} THEN <<>>
    ELSE LET first == CHOOSE x \in S :
                         \A y \in S : ~StrLess(ThreadSortKey(y.thread), ThreadSortKey(x.thread))
         IN <<first>> \o OrderByThread(S \ {first})

\* Comment::find_for_node: SELECT ... WHERE c.nid = ? [AND c.status = 0]
\* ORDER BY SUBSTRING(c.thread, 1, LENGTH(c.thread) - 1)
find_for_node(nid, include_unpublished) ==
    OrderByThread({c \in comments :
                      c.nid = nid /\ (include_unpublished \/ c.status = COMMENT_PUBLISHED)})

\* Mutant: the count without its status filter
count_for_node_any_status(nid) == Cardinality({c \in comments : c.nid = nid})

\* SELECT COUNT(*) FROM comments WHERE nid = ? AND status = 0
count_for_node(nid) ==
    Cardinality({c \in comments : c.nid = nid /\ c.status = COMMENT_PUBLISHED})

\* SELECT thread FROM comments WHERE nid = ? AND pid = 0
\* ORDER BY SUBSTRING(thread, 1, LENGTH(thread) - 1) DESC LIMIT 1
MaxTopThread(nid) ==
    LET S == {c.thread : c \in {x \in comments : x.nid = nid /\ x.pid = 0}}
    IN IF S = {} THEN {} ELSE {MaxStrippedStr(S)}

\* Mutant: the child query ordered ascending
MaxChildThread_asc(nid, parent_thread) ==
    LET prefix == TrimEndSlash(parent_thread)
        S == {c.thread : c \in {x \in comments :
                  /\ x.nid = nid
                  /\ StartsWith(x.thread, Append(prefix, CH_DOT))
                  /\ x.thread # parent_thread}}
    IN IF S = {} THEN {} ELSE {CHOOSE x \in S : \A y \in S : ~StrLess(y, x)}

\* SELECT thread FROM comments WHERE nid = ? AND thread LIKE '<prefix>.%'
\* AND thread != <parent_thread> ORDER BY thread DESC LIMIT 1
MaxChildThread(nid, parent_thread) ==
    LET prefix == TrimEndSlash(parent_thread)
        S == {c.thread : c \in {x \in comments :
                  /\ x.nid = nid
                  /\ StartsWith(x.thread, Append(prefix, CH_DOT))
                  /\ x.thread # parent_thread}}
    IN IF S = {} THEN {} ELSE {MaxStr(S)}

\* Mutant: the parent's path is never read, the fallback is always used
ParentThread_fallback(pid) == <<CH_0, CH_0, CH_SLASH>>

\* SELECT thread FROM comments WHERE cid = ?, with the "00/" fallback of
\* calculate_thread when the parent row is missing
ParentThread(pid) ==
    LET P == find_by_cid(pid)
    IN IF P = {} THEN <<CH_0, CH_0, CH_SLASH>> ELSE (CHOOSE c \in P : TRUE).thread

\* calculate_thread, pid = 0: the path computed from the query's result
TopThreadFrom(result) ==
    LET next_num == IF result = {} THEN 0
                    ELSE U32Value(vancode_to_int(TrimEndSlash(CHOOSE th \in result : TRUE))) + 1
    IN Append(int_to_vancode(U32(next_num)), CH_SLASH)

\* calculate_thread, pid # 0: the path computed from the parent's path and
\* the query's result
ChildThreadFrom(parent_thread, result) ==
    LET parent_prefix == TrimEndSlash(parent_thread)
        next_num ==
            IF result = {} THEN 0
            ELSE LET child_part == TrimEndSlash(CHOOSE th \in result : TRUE)
                     last_dot == RfindDot(child_part)
                 IN IF last_dot # 0
                    THEN U32Value(vancode_to_int(SubSeq(child_part, last_dot + 1,
                                                        Len(child_part)))) + 1
                    ELSE 0
    IN parent_prefix \o <<CH_DOT>> \o int_to_vancode(U32(next_num)) \o <<CH_SLASH>>

\* Mutant: the latest comment of any status
LatestCandidates_any_status(nid) ==
    LET P == {c \in comments : c.nid = nid}
    IN {c \in P : \A d \in P : d.timestamp <= c.timestamp}

\* SELECT timestamp, uid, name FROM comments WHERE nid = ? AND status = 0
\* ORDER BY timestamp DESC LIMIT 1: any row of the greatest timestamp
LatestCandidates(nid) ==
    LET P == {c \in comments : c.nid = nid /\ c.status = COMMENT_PUBLISHED}
    IN {c \in P : \A d \in P : d.timestamp <= c.timestamp}

\* INSERT INTO node_comment_statistics ... ON DUPLICATE KEY UPDATE ...
UpsertStats(row) == {s \in stats : s.nid # row.nid} \cup {row}

StatsRow(nid, timestamp, name, uid, count) ==
    [nid |-> nid, last_comment_timestamp |-> timestamp, last_comment_name |-> name,
     last_comment_uid |-> uid, comment_count |-> count]

-----------------------------------------------------------------------------
(* Comment requests.  Each action is one storage step of the handler and of *)
(* the model function it calls.                                             *)

CreatePcsBeforeInsert == {"r_node", "c_top", "c_parent", "c_child", "c_insert"}
InFlightInserts == Cardinality({t \in Tasks : ctask[t].pc \in CreatePcsBeforeInsert})
MayStartCreate(P) == nextCid + InFlightInserts <= P.maxCid

SetC(t, r) == ctask' = [ctask EXCEPT ![t] = r]

\* Utc::now() read by Comment::create; the clock may have advanced
ReadClock(ts, P) == ts \in now..Min(now + 1, P.maxTime) /\ now' = ts

\* Mutant: only a node closed to comments refuses a new one
MayComment_not_disabled(n) == n.comment # COMMENT_NODE_DISABLED

\* add_submit and reply_submit: node.comment != COMMENT_NODE_READ_WRITE is Forbidden
MayComment(n) == n.comment = COMMENT_NODE_READ_WRITE

\* handlers::comment::add_submit up to the call of Comment::create:
\* the node is loaded (NotFound otherwise) and open to comments (Forbidden
\* otherwise), the poster and the moderation decision come from the
\* permission collaborator.
StartAdd(t, P) ==
    /\ ctask[t].pc = "idle"
    /\ MayStartCreate(P)
    /\ \E n \in node, a \in P.authors, st \in P.statuses, ts \in 1..P.maxTime :
        /\ find_with_body(n.nid) # {}
        /\ MayComment(n)
        /\ ReadClock(ts, P)
        /\ SetC(t, [IdleC EXCEPT !.pc = "c_top", !.op = "create", !.nid = n.nid,
                        !.uid = a.uid, !.name = a.name, !.status = st, !.ts = ts])
    /\ UNCHANGED <<comments, stats, nextCid, contentVars, probe>>

\* handlers::comment::reply_submit, first query: the parent comment
StartReply(t, P) ==
    /\ ctask[t].pc = "idle"
    /\ MayStartCreate(P)
    /\ \E parent \in comments, a \in P.authors, st \in P.statuses :
        SetC(t, [IdleC EXCEPT !.pc = "r_node", !.op = "create", !.nid = parent.nid,
                     !.pid = parent.cid, !.uid = a.uid, !.name = a.name, !.status = st])
    /\ UNCHANGED <<comments, stats, nextCid, now, contentVars, probe>>

\* add_submit that ends before Comment::create: the node is missing, or it
\* is not open to comments
RejectAdd(t) ==
    /\ ctask[t].pc = "idle"
    /\ \E n \in node :
        /\ find_with_body(n.nid) = {} \/ ~MayComment(n)
        /\ SetC(t, [IdleC EXCEPT !.pc = "rejected", !.op = "create", !.nid = n.nid,
                        !.err = IF find_with_body(n.nid) = {} THEN "NotFound"
                                ELSE "Forbidden"])
    /\ UNCHANGED <<comments, stats, nextCid, now, contentVars, probe>>

\* reply_submit that ends after its second query, likewise
RejectReply(t) ==
    /\ ctask[t].pc = "r_node"
    /\ LET F == find_with_body(ctask[t].nid)
       IN /\ \A n \in F : ~MayComment(n)
          /\ SetC(t, [ctask[t] EXCEPT !.pc = "rejected",
                          !.err = IF F = {} THEN "NotFound" ELSE "Forbidden"])
    /\ UNCHANGED <<comments, stats, nextCid, now, contentVars, probe>>

\* reply_submit, second query: the parent's node, which is open to comments;
\* then Comment::create starts
ReplyNode(t, P) ==
    /\ ctask[t].pc = "r_node"
    /\ \E n \in find_with_body(ctask[t].nid) : MayComment(n)
    /\ \E ts \in 1..P.maxTime :
        /\ ReadClock(ts, P)
        /\ SetC(t, [ctask[t] EXCEPT !.pc = "c_parent", !.ts = ts])
    /\ UNCHANGED <<comments, stats, nextCid, contentVars, probe>>

\* calculate_thread, pid = 0: the greatest top-level path
CalcTop(t) ==
    /\ ctask[t].pc = "c_top"
    /\ SetC(t, [ctask[t] EXCEPT !.pc = "c_insert",
                    !.thread = TopThreadFrom(MaxTopThread(ctask[t].nid))])
    /\ UNCHANGED <<comments, stats, nextCid, now, contentVars, probe>>

\* calculate_thread, pid # 0, first query: the parent's path
CalcParent(t) ==
    /\ ctask[t].pc = "c_parent"
    /\ SetC(t, [ctask[t] EXCEPT !.pc = "c_child", !.pthread = ParentThread(ctask[t].pid)])
    /\ UNCHANGED <<comments, stats, nextCid, now, contentVars, probe>>

\* calculate_thread, pid # 0, second query: the greatest path under the parent
CalcChild(t) ==
    /\ ctask[t].pc = "c_child"
    /\ SetC(t, [ctask[t] EXCEPT !.pc = "c_insert", !.pthread = <<>>,
                    !.thread = ChildThreadFrom(ctask[t].pthread,
                                   MaxChildThread(ctask[t].nid, ctask[t].pthread))])
    /\ UNCHANGED <<comments, stats, nextCid, now, contentVars, probe>>

\* INSERT INTO comments (...) VALUES (...); cid = last_insert_id()
CommentRow(cid, c) ==
    [cid |-> cid, pid |-> c.pid, nid |-> c.nid, uid |-> c.uid, name |-> c.name,
     timestamp |-> c.ts, status |-> c.status, thread |-> c.thread,
     subject |-> c.subject, comment |-> c.body]

InsertComment(t) ==
    /\ ctask[t].pc = "c_insert"
    /\ comments' = comments \cup {CommentRow(nextCid, ctask[t])}
    /\ nextCid' = nextCid + 1
    /\ SetC(t, [ctask[t] EXCEPT !.pc = "c_count", !.cid = nextCid])
    /\ UNCHANGED <<stats, now, contentVars, probe>>

\* update_statistics, first query: count_for_node
CreateCount(t) ==
    /\ ctask[t].pc = "c_count"
    /\ SetC(t, [ctask[t] EXCEPT !.pc = "c_stats", !.count = count_for_node(ctask[t].nid)])
    /\ UNCHANGED <<comments, stats, nextCid, now, contentVars, probe>>

\* update_statistics, second query: the row written from the new comment's
\* timestamp, name and uid and the count just read
UpdateStatsRow(c) == StatsRow(c.nid, c.ts, c.name, c.uid, c.count)

CreateStats(t) ==
    /\ ctask[t].pc = "c_stats"
    /\ stats' = UpsertStats(UpdateStatsRow(ctask[t]))
    /\ SetC(t, [ctask[t] EXCEPT !.pc = "done", !.count = 0])
    /\ UNCHANGED <<comments, nextCid, now, contentVars, probe>>

\* handlers::comment::delete_submit: the comment is loaded (NotFound
\* otherwise) and the caller may administer comments
StartDelete(t) ==
    /\ ctask[t].pc = "idle"
    /\ \E c \in comments :
        SetC(t, [IdleC EXCEPT !.pc = "d_find", !.op = "delete", !.cid = c.cid])
    /\ UNCHANGED <<comments, stats, nextCid, now, contentVars, probe>>

\* Comment::delete, find_by_cid
DeleteFind(t) ==
    /\ ctask[t].pc = "d_find"
    /\ LET F == find_by_cid(ctask[t].cid)
       IN SetC(t, [ctask[t] EXCEPT !.pc = "d_delete", !.found = F # {},
                       !.nid = IF F = {} THEN 0 ELSE (CHOOSE c \in F : TRUE).nid])
    /\ UNCHANGED <<comments, stats, nextCid, now, contentVars, probe>>

\* Mutant: the replies below the comment go with it
DeleteComment_cascade(rows, cid) ==
    {c \in rows :
        /\ c.cid # cid
        /\ ~\E p \in rows :
              /\ p.cid = cid /\ p.nid = c.nid
              /\ StartsWith(c.thread, Append(DropLast(p.thread), CH_DOT))}

\* DELETE FROM comments WHERE cid = ?
DeleteComment(rows, cid) == {c \in rows : c.cid # cid}

DeleteRow(t) ==
    /\ ctask[t].pc = "d_delete"
    /\ comments' = DeleteComment(comments, ctask[t].cid)
    /\ SetC(t, [ctask[t] EXCEPT !.pc = IF ctask[t].found THEN "d_latest" ELSE "done"])
    /\ UNCHANGED <<stats, nextCid, now, contentVars, probe>>

\* recalculate_statistics, first query: the latest published comment
DeleteLatest(t) ==
    /\ ctask[t].pc = "d_latest"
    /\ LET L == LatestCandidates(ctask[t].nid)
       IN IF L = {}
          THEN SetC(t, [ctask[t] EXCEPT !.pc = "d_count", !.latest = NoLatest])
          ELSE \E c \in L :
                 SetC(t, [ctask[t] EXCEPT !.pc = "d_count",
                              !.latest = [some |-> TRUE, timestamp |-> c.timestamp,
                                          uid |-> c.uid, name |-> c.name]])
    /\ UNCHANGED <<comments, stats, nextCid, now, contentVars, probe>>

\* recalculate_statistics, second query: count_for_node
DeleteCount(t) ==
    /\ ctask[t].pc = "d_count"
    /\ SetC(t, [ctask[t] EXCEPT !.pc = "d_stats", !.count = count_for_node(ctask[t].nid)])
    /\ UNCHANGED <<comments, stats, nextCid, now, contentVars, probe>>

\* recalculate_statistics, third query: the row of the latest comment, or
\* the reset row when no published comment is left
RecalcStatsRow(c) ==
    IF c.latest.some
    THEN StatsRow(c.nid, c.latest.timestamp, c.latest.name, c.latest.uid, c.count)
    ELSE StatsRow(c.nid, 0, NULL, 0, 0)

DeleteStats(t) ==
    /\ ctask[t].pc = "d_stats"
    /\ stats' = UpsertStats(RecalcStatsRow(ctask[t]))
    /\ SetC(t, [ctask[t] EXCEPT !.pc = "done", !.count = 0, !.latest = NoLatest])
    /\ UNCHANGED <<comments, nextCid, now, contentVars, probe>>

\* Mutant: an edited comment is published
UpdateComment_publish(rows, cid, subject, body, status) ==
    {IF c.cid = cid
     THEN [c EXCEPT !.subject = subject, !.comment = body, !.status = COMMENT_PUBLISHED]
     ELSE c : c \in rows}

\* UPDATE comments SET subject = ?, comment = ?, status = ? WHERE cid = ?
UpdateComment(rows, cid, subject, body, status) ==
    {IF c.cid = cid
     THEN [c EXCEPT !.subject = subject, !.comment = body, !.status = status]
     ELSE c : c \in rows}

\* handlers::comment::edit_submit, first query: the comment (NotFound when
\* there is none); the form carries a body that is not blank
StartEdit(t, P) ==
    /\ ctask[t].pc = "idle"
    /\ \E c \in comments, su \in P.subjects, b \in P.bodies :
        SetC(t, [IdleC EXCEPT !.pc = "e_node", !.op = "edit", !.cid = c.cid,
                     !.nid = c.nid, !.status = c.status, !.subject = su, !.body = b])
    /\ UNCHANGED <<comments, stats, nextCid, now, contentVars, probe>>

\* edit_submit, second query: the comment's node (NotFound when there is none)
EditNode(t) ==
    /\ ctask[t].pc = "e_node"
    /\ IF find_with_body(ctask[t].nid) = {}
       THEN SetC(t, [ctask[t] EXCEPT !.pc = "rejected", !.err = "NotFound"])
       ELSE SetC(t, [ctask[t] EXCEPT !.pc = "e_update"])
    /\ UNCHANGED <<comments, stats, nextCid, now, contentVars, probe>>

\* Comment::update, called with the status that the first query read
EditUpdate(t) ==
    /\ ctask[t].pc = "e_update"
    /\ comments' = UpdateComment(comments, ctask[t].cid, ctask[t].subject, ctask[t].body,
                                 ctask[t].status)
    /\ SetC(t, [ctask[t] EXCEPT !.pc = "done"])
    /\ UNCHANGED <<stats, nextCid, now, contentVars, probe>>

EditOp(t, P) == StartEdit(t, P) \/ EditNode(t) \/ EditUpdate(t)

\* Every query is awaited with `?`: a storage error returns from the
\* function at once, and a cancelled request is dropped at the await.  What
\* was written before stays written: the pool runs each statement on its own.
CommentRunning(t) == ctask[t].pc \notin {"idle", "done", "failed", "rejected"}

FailComment(t) ==
    /\ CommentRunning(t)
    /\ SetC(t, [ctask[t] EXCEPT !.pc = "failed", !.count = 0, !.latest = NoLatest,
                    !.pthread = <<>>])
    /\ UNCHANGED <<comments, stats, nextCid, now, contentVars, probe>>

\* The response is sent; the task serves the next request
ReturnComment(t) ==
    /\ ctask[t].pc \in {"done", "failed", "rejected"}
    /\ SetC(t, IdleC)
    /\ UNCHANGED <<comments, stats, nextCid, now, contentVars, probe>>

CommentOp(t, P) ==
    \/ StartAdd(t, P) \/ StartReply(t, P) \/ ReplyNode(t, P)
    \/ CalcTop(t) \/ CalcParent(t) \/ CalcChild(t)
    \/ InsertComment(t) \/ CreateCount(t) \/ CreateStats(t)
    \/ StartDelete(t) \/ DeleteFind(t) \/ DeleteRow(t)
    \/ DeleteLatest(t) \/ DeleteCount(t) \/ DeleteStats(t)
    \/ FailComment(t)

-----------------------------------------------------------------------------
(* Field schema and form input of the content handlers. *)

\* Labels, as strings of ASCII codes
L_A == <<65>>
L_B == <<66>>
L_C == <<67>>
L_Z == <<90>>

\* Table node_type
NodeTypes == {"page", "review", "survey"}

\* Table node_field
node_field ==
    {[field_name |-> "subtitle", field_type |-> "text", cardinality |-> 1],
     [field_name |-> "rating", field_type |-> "integer", cardinality |-> 2],
     [field_name |-> "score", field_type |-> "decimal", cardinality |-> 1],
     [field_name |-> "flag", field_type |-> "boolean", cardinality |-> 1]}

\* Table node_field_instance
node_field_instance ==
    {[field_name |-> "subtitle", node_type |-> "page", label |-> L_A, weight |-> 0, required |-> 0],
     [field_name |-> "rating", node_type |-> "page", label |-> L_B, weight |-> 1, required |-> 0],
     [field_name |-> "rating", node_type |-> "review", label |-> L_Z, weight |-> 1, required |-> 0],
     [field_name |-> "score", node_type |-> "review", label |-> L_A, weight |-> 5, required |-> 0],
     [field_name |-> "flag", node_type |-> "review", label |-> L_B, weight |-> 5, required |-> 0],
     [field_name |-> "subtitle", node_type |-> "review", label |-> L_C, weight |-> 9, required |-> 1],
     [field_name |-> "rating", node_type |-> "survey", label |-> L_A, weight |-> 0, required |-> 1],
     [field_name |-> "subtitle", node_type |-> "survey", label |-> L_B, weight |-> 1, required |-> 1]}

\* Mutant: the instances ordered by label alone
InstanceLess_label(a, b) == StrLess(a.label, b.label)

\* ORDER BY nfi.weight, nfi.label
InstanceLess(a, b) ==
    a.weight < b.weight \/ (a.weight = b.weight /\ StrLess(a.label, b.label))

RECURSIVE OrderInstances(_)
OrderInstances(S) ==
    IF S = {} THEN <<>>
    ELSE LET first == CHOOSE x \in S : \A y \in S : ~InstanceLess(y, x)
         IN <<first>> \o OrderInstances(S \ {first})

\* NodeFieldInstance::with_field_info: node_field_instance INNER JOIN
\* node_field ON field_name WHERE node_type = ? ORDER BY weight, label
with_field_info(node_type) ==
    OrderInstances(
        {[field_name |-> i.field_name, field_type |-> f.field_type,
          cardinality |-> f.cardinality, required |-> i.required,
          label |-> i.label, weight |-> i.weight] :
            <<i, f>> \in {x \in node_field_instance \X node_field :
                              x[1].node_type = node_type /\ x[1].field_name = x[2].field_name}})

\* The fields of the content type "page"
FieldInstances == with_field_info("page")

\* for delta in 0..10u32
DeltaCap == 10

CH_PLUS == 43     \* '+'
CH_MINUS == 45    \* '-'

\* format!("field_{}", field_name) and format!("field_{}_{}", field_name, delta)
KeySingle(name) == <<"field", name>>
KeyMulti(name, delta) == <<"field", name, delta>>

S_s1 == <<115, 49>>    \* "s1"
S_s2 == <<115, 50>>    \* "s2"
S_7 == <<55>>          \* "7"
S_minus3 == <<45, 51>> \* "-3"
S_x == <<120>>         \* "x"
S_true == <<116, 114, 117, 101>>  \* "true"
S_1 == <<49>>          \* "1"
S_inf == <<105, 110, 102>>                            \* "inf"
S_infinity == <<105, 110, 102, 105, 110, 105, 116, 121>>  \* "infinity"
S_nan == <<110, 97, 110>>                             \* "nan"
CH_e == 101       \* 'e'

\* The field part of a submitted form: HashMap<String, String>
Forms ==
    { <<>>,
      (KeySingle("subtitle") :> S_s1) @@ (KeyMulti("rating", 0) :> S_7),
      (KeySingle("subtitle") :> S_s2) @@ (KeyMulti("rating", 0) :> <<>>)
          @@ (KeyMulti("rating", 1) :> S_minus3) }

Titles == {"a", "b"}

S_True == <<84, 114, 117, 101>>   \* "True"
S_1_5 == <<49, 46, 53>>           \* "1.5"

\* Forms submitted for the content type "review"
ReviewForms ==
    { (KeySingle("subtitle") :> S_s1) @@ (KeySingle("flag") :> S_1)
          @@ (KeySingle("score") :> S_1_5)
          @@ (KeyMulti("rating", 0) :> S_7) @@ (KeyMulti("rating", 1) :> S_minus3),
      (KeySingle("subtitle") :> S_s2) @@ (KeySingle("flag") :> S_True)
          @@ (KeySingle("score") :> S_x)
          @@ (KeyMulti("rating", 0) :> <<>>) @@ (KeyMulti("rating", 1) :> S_minus3),
      (KeySingle("subtitle") :> S_s1) @@ (KeySingle("flag") :> S_x)
          @@ (KeyMulti("subtitle", 0) :> S_s2) @@ (KeySingle("rating") :> S_7)
          @@ (KeyMulti("rating", 0) :> S_x) @@ (KeyMulti("rating", 2) :> S_7)
          @@ (KeyMulti("rating", 10) :> S_7),
      (KeyMulti("subtitle", 0) :> S_s1) }

IsDigit(c) == c >= CH_0 /\ c <= CH_0 + 9

RECURSIVE DecimalValue(_, _)
DecimalValue(s, acc) ==
    IF s = <<>> THEN acc ELSE DecimalValue(Tail(s), acc * 10 + (Head(s) - CH_0))

\* str::parse::<i64>().ok(): an optional sign and at least one digit; {} is
\* None.  The inputs drawn here have at most nine digits, for which the
\* 64-bit range check of the parser always passes.
ParseI64(s) ==
    LET signed == s # <<>> /\ s[1] \in {CH_PLUS, CH_MINUS}
        digits == IF signed THEN Tail(s) ELSE s
        mag == DecimalValue(digits, 0)
        val == IF signed /\ s[1] = CH_MINUS THEN 0 - mag ELSE mag
    IN IF digits = <<>> \/ \E i \in 1..Len(digits) : ~IsDigit(digits[i]) THEN {}
       ELSE {val}

\* Mutant: the case is kept
ToLower_none(s) == s

\* str::to_lowercase on ASCII
ToLower(s) == [i \in 1..Len(s) |-> IF s[i] >= 65 /\ s[i] <= 90 THEN s[i] + 32 ELSE s[i]]

\* Option<T> as a column value: None is the empty sequence, Some(v) is <<v>>
None == <<>>
Some(v) == <<v>>
OptValue(o) == IF o = {} THEN None ELSE Some(CHOOSE v \in o : TRUE)

AllDigits(s) == \A i \in 1..Len(s) : IsDigit(s[i])

\* The decimal number mant * 10^exp without trailing zeros in mant
RECURSIVE Normalize(_, _)
Normalize(mant, exp) ==
    IF mant = 0 THEN <<"finite", 0, 0>>
    ELSE IF mant % 10 = 0 THEN Normalize(mant \div 10, exp + 1)
    ELSE <<"finite", mant, exp>>

\* str::parse::<f64>().ok(): Sign? ('inf' | 'infinity' | 'nan' | Number) with
\* Number ::= (Digit+ | Digit+ '.' Digit* | Digit* '.' Digit+) ('e' Sign? Digit+)?
\* and letters in either case; {} is None.  A value is <<class, mant, exp>>;
\* the inputs drawn here are short enough to be told apart as doubles.
ParseF64(s) ==
    LET signed == s # <<>> /\ s[1] \in {CH_PLUS, CH_MINUS}
        neg == signed /\ s[1] = CH_MINUS
        body == ToLower(IF signed THEN Tail(s) ELSE s)
        es == {i \in 1..Len(body) : body[i] = CH_e}
        ePos == IF es = {} THEN 0 ELSE CHOOSE i \in es : \A j \in es : i <= j
        mpart == IF ePos = 0 THEN body ELSE SubSeq(body, 1, ePos - 1)
        epart == IF ePos = 0 THEN <<>> ELSE SubSeq(body, ePos + 1, Len(body))
        eSigned == epart # <<>> /\ epart[1] \in {CH_PLUS, CH_MINUS}
        eDigits == IF eSigned THEN Tail(epart) ELSE epart
        eOk == ePos = 0 \/ (eDigits # <<>> /\ AllDigits(eDigits))
        eVal == IF ePos = 0 \/ ~eOk THEN 0
                ELSE IF eSigned /\ epart[1] = CH_MINUS THEN 0 - DecimalValue(eDigits, 0)
                ELSE DecimalValue(eDigits, 0)
        dots == {i \in 1..Len(mpart) : mpart[i] = CH_DOT}
        dPos == IF dots = {} THEN Len(mpart) + 1 ELSE CHOOSE i \in dots : \A j \in dots : i <= j
        ipart == SubSeq(mpart, 1, dPos - 1)
        fpart == SubSeq(mpart, dPos + 1, Len(mpart))
        mOk == /\ AllDigits(ipart) /\ AllDigits(fpart)
               /\ Len(ipart) + Len(fpart) >= 1
        mag == DecimalValue(ipart \o fpart, 0)
    IN IF body \in {S_inf, S_infinity} THEN {<<"inf", IF neg THEN 0 - 1 ELSE 1, 0>>}
       ELSE IF body = S_nan THEN {<<"nan", 0, 0>>}
       ELSE IF ~(mOk /\ eOk) THEN {}
       ELSE {Normalize(IF neg THEN 0 - mag ELSE mag, eVal - Len(fpart))}

\* parse_field_value: (value_text, value_int, value_float) by field type
parse_field_value(field_type, value) ==
    IF field_type \in {"integer", "number_integer"}
    THEN [value_text |-> None, value_int |-> OptValue(ParseI64(value)), value_float |-> None]
    ELSE IF field_type \in {"decimal", "float", "number_decimal"}
    THEN [value_text |-> None, value_int |-> None, value_float |-> OptValue(ParseF64(value))]
    ELSE IF field_type \in {"boolean", "checkbox"}
    THEN [value_text |-> None,
          value_int |-> IF value = S_1 \/ ToLower(value) = S_true THEN Some(1) ELSE Some(0),
          value_float |-> None]
    ELSE [value_text |-> Some(value), value_int |-> None, value_float |-> None]

\* The input keys save_field_values reads for a field, in loop order
FieldDeltas(field) == IF field.cardinality = 1 THEN {0} ELSE 0..(DeltaCap - 1)
FieldKey_multi(field, delta) == KeyMulti(field.field_name, delta)
FieldKey(field, delta) ==
    IF field.cardinality = 1 THEN KeySingle(field.field_name)
    ELSE KeyMulti(field.field_name, delta)

\* form_data.get(&key) is Some(value) with !value.is_empty()
HasInput(form, field, delta) ==
    FieldKey(field, delta) \in DOMAIN form /\ form[FieldKey(field, delta)] # <<>>

\* The deltas from d on for which save_field_values calls NodeFieldData::save
PendingDeltas(form, field, d) ==
    {x \in FieldDeltas(field) : x >= d /\ HasInput(form, field, x)}

FieldRow(nid, vid, field, delta, value) ==
    LET p == parse_field_value(field.field_type, value)
    IN [nid |-> nid, vid |-> vid, field_name |-> field.field_name, delta |-> delta,
        value_text |-> p.value_text, value_int |-> p.value_int,
        value_float |-> p.value_float]

\* The unique key of node_field_data that ON DUPLICATE KEY UPDATE refers to
FieldDataKey(r) == <<r.nid, r.vid, r.field_name, r.delta>>

\* INSERT INTO node_field_data ... ON DUPLICATE KEY UPDATE value_* = VALUES(value_*)
UpsertFieldData(rows, r) ==
    IF \E x \in rows : FieldDataKey(x) = FieldDataKey(r)
    THEN {IF FieldDataKey(x) = FieldDataKey(r)
          THEN [x EXCEPT !.value_text = r.value_text, !.value_int = r.value_int,
                         !.value_float = r.value_float]
          ELSE x : x \in rows}
    ELSE rows \cup {r}

\* Mutant: the delete that removes nothing
DeleteForRevision_none(rows, vid, field_name) == rows

\* Mutant: the delete that forgets the revision
DeleteForRevision_any_vid(rows, vid, field_name) ==
    {r \in rows : ~(r.field_name = field_name)}

\* DELETE FROM node_field_data WHERE vid = ? AND field_name = ?
DeleteForRevision(rows, vid, field_name) ==
    {r \in rows : ~(r.vid = vid /\ r.field_name = field_name)}

\* NodeFieldData::for_revision, the rows of one field: ORDER BY field_name,
\* delta leaves them by increasing delta
RECURSIVE OrderByDelta(_)
OrderByDelta(S) ==
    IF S = {} THEN <<>>
    ELSE LET first == CHOOSE x \in S : \A y \in S : x.delta <= y.delta
         IN <<[delta |-> first.delta, value_text |-> first.value_text,
               value_int |-> first.value_int, value_float |-> first.value_float]>>
            \o OrderByDelta(S \ {first})

for_revision(vid, field_name) ==
    OrderByDelta({r \in fieldData : r.vid = vid /\ r.field_name = field_name})

\* get_fields_with_values: the instances of the type, each with the values
\* stored for the revision (vec![] when data_map has no entry)
get_fields_with_values(node_type, vid) ==
    LET fields == with_field_info(node_type)
    IN [i \in 1..Len(fields) |->
           [field_name |-> fields[i].field_name, field_type |-> fields[i].field_type,
            label |-> fields[i].label, weight |-> fields[i].weight,
            required |-> fields[i].required, cardinality |-> fields[i].cardinality,
            values |-> for_revision(vid, fields[i].field_name)]]

-----------------------------------------------------------------------------
(* Content requests.  Each action is one storage step. *)

IdleN ==
    [pc |-> "idle", op |-> "none", type |-> "none", nid |-> 0, vid |-> 0,
     title |-> "none", form |-> <<>>, fi |-> 0, d |-> 0, err |-> "none"]

SetN(t, r) == ntask' = [ntask EXCEPT ![t] = r]

InsertsRevision(t) == ntask[t].pc \in {"n_insert", "u_node", "r_insert"}
MayStartRevision(P) ==
    nextVid + Cardinality({t \in Tasks : InsertsRevision(t)}) <= P.maxVid
MayStartNode(P) ==
    nextNid + Cardinality({t \in Tasks : ntask[t].pc = "n_insert"}) <= P.maxNid

\* The column default of node.vid, which the INSERT of Node::create leaves out
NoVid == 0

\* The column default of node.comment, which the INSERT of Node::create leaves
\* out as well.  The schema file is not among the sources; the model takes the
\* mode in which comments can be posted.  The content requests never read it.
NodeCommentDefault == COMMENT_NODE_READ_WRITE

\* add_submit and edit_submit, the checks before the first write: the title
\* is not empty and every required field has a non-empty input under
\* "field_{name}"; otherwise the form is rendered again with an error
FormCheck(node_type, title, form) ==
    IF title = "" THEN "title_required"
    ELSE IF \E i \in 1..Len(with_field_info(node_type)) :
               LET field == with_field_info(node_type)[i]
                   key == KeySingle(field.field_name)
               IN /\ field.required = 1
                  /\ (IF key \in DOMAIN form THEN form[key] ELSE <<>>) = <<>>
    THEN "field_required"
    ELSE "ok"

\* handlers::node::add_submit up to the call of Node::create: the content
\* type exists, the title is not empty, the required fields are filled
StartCreate(t, P) ==
    /\ ntask[t].pc = "idle"
    /\ MayStartNode(P) /\ MayStartRevision(P)
    /\ \E ty \in P.types \cap NodeTypes, ti \in P.titles, f \in P.forms :
        /\ FormCheck(ty, ti, f) = "ok"
        /\ SetN(t, [IdleN EXCEPT !.pc = "n_insert", !.op = "create", !.type = ty,
                     !.title = ti, !.form = f])
    /\ UNCHANGED <<node, revisions, fieldData, nextNid, nextVid, commentVars, probe>>

\* Node::create, INSERT INTO node (type, title, ...): the vid column is not set
NodeInsert(t) ==
    /\ ntask[t].pc = "n_insert"
    /\ node' = node \cup {[nid |-> nextNid, vid |-> NoVid, type |-> ntask[t].type,
                           title |-> ntask[t].title, comment |-> NodeCommentDefault]}
    /\ nextNid' = nextNid + 1
    /\ SetN(t, [ntask[t] EXCEPT !.pc = "r_insert", !.nid = nextNid])
    /\ UNCHANGED <<revisions, fieldData, nextVid, commentVars, probe>>

\* handlers::node::edit_submit up to the call of Node::update: the node is
\* loaded with its head revision (NotFound otherwise), the title is not empty
StartUpdate(t, P) ==
    /\ ntask[t].pc = "idle"
    /\ MayStartRevision(P)
    /\ \E n \in node, ti \in P.titles, f \in P.forms :
        /\ find_with_body(n.nid) # {}
        /\ FormCheck(n.type, ti, f) = "ok"
        /\ SetN(t, [IdleN EXCEPT !.pc = "u_node", !.op = "update", !.type = n.type,
                        !.nid = n.nid, !.title = ti, !.form = f])
    /\ UNCHANGED <<node, revisions, fieldData, nextNid, nextVid, commentVars, probe>>

\* handlers::node::add_submit that ends before Node::create: Err(NotFound)
\* for a content type NodeType::find_by_type does not find, else the form
\* rendered again
RejectCreate(t, P) ==
    /\ ntask[t].pc = "idle"
    /\ \E ty \in P.types, ti \in P.titles, f \in P.forms :
        LET err == IF ty \notin NodeTypes THEN "NotFound" ELSE FormCheck(ty, ti, f)
        IN /\ err # "ok"
           /\ SetN(t, [IdleN EXCEPT !.pc = "rejected", !.op = "create", !.type = ty,
                            !.title = ti, !.form = f, !.err = err])
    /\ UNCHANGED <<node, revisions, fieldData, nextNid, nextVid, commentVars, probe>>

\* handlers::node::edit_submit that ends before Node::update: Err(NotFound)
\* when find_with_body finds no row, else the form rendered again
RejectUpdate(t, P) ==
    /\ ntask[t].pc = "idle"
    /\ \E nid \in 1..P.maxNid, ti \in P.titles, f \in P.forms :
        LET found == find_with_body(nid)
            err == IF found = {} THEN "NotFound"
                   ELSE FormCheck((CHOOSE n \in found : TRUE).type, ti, f)
        IN /\ err # "ok"
           /\ SetN(t, [IdleN EXCEPT !.pc = "rejected", !.op = "update", !.nid = nid,
                            !.type = IF found = {} THEN "none"
                                     ELSE (CHOOSE n \in found : TRUE).type,
                            !.title = ti, !.form = f, !.err = err])
    /\ UNCHANGED <<node, revisions, fieldData, nextNid, nextVid, commentVars, probe>>

\* A caller of save_field_values for a revision that is already stored
StartSave(t, P) ==
    /\ ntask[t].pc = "idle"
    /\ \E n \in node, v \in revisions, f \in P.forms :
        /\ v.nid = n.nid
        /\ SetN(t, [IdleN EXCEPT !.pc = "f_info", !.op = "save", !.type = n.type,
                         !.nid = n.nid, !.vid = v.vid, !.form = f])
    /\ UNCHANGED <<node, revisions, fieldData, nextNid, nextVid, commentVars, probe>>

\* Node::update, UPDATE node SET title = ?, changed = ?, ... WHERE nid = ?
UpdateNode(t) ==
    /\ ntask[t].pc = "u_node"
    /\ node' = {IF n.nid = ntask[t].nid THEN [n EXCEPT !.title = ntask[t].title] ELSE n :
                    n \in node}
    /\ SetN(t, [ntask[t] EXCEPT !.pc = "r_insert"])
    /\ UNCHANGED <<revisions, fieldData, nextNid, nextVid, commentVars, probe>>

\* Node::create and Node::update, INSERT INTO node_revisions; vid = last_insert_id()
RevisionRow(vid, c) ==
    [vid |-> vid, nid |-> c.nid, uid |-> 1, title |-> c.title, body |-> "x"]

RevisionInsert(t) ==
    /\ ntask[t].pc = "r_insert"
    /\ revisions' = revisions \cup {RevisionRow(nextVid, ntask[t])}
    /\ nextVid' = nextVid + 1
    /\ SetN(t, [ntask[t] EXCEPT !.pc = "n_setvid", !.vid = nextVid])
    /\ UNCHANGED <<node, fieldData, nextNid, commentVars, probe>>

\* Mutant: only a content item that has no head yet is pointed at the revision
RepointHead_first(rows, nid, vid) ==
    {IF n.nid = nid /\ n.vid = NoVid THEN [n EXCEPT !.vid = vid] ELSE n : n \in rows}

\* UPDATE node SET vid = ? WHERE nid = ?
RepointHead(rows, nid, vid) ==
    {IF n.nid = nid THEN [n EXCEPT !.vid = vid] ELSE n : n \in rows}

\* Node::create and Node::update, last statement; the handler goes on to
\* save_field_values
SetVid(t) ==
    /\ ntask[t].pc = "n_setvid"
    /\ node' = RepointHead(node, ntask[t].nid, ntask[t].vid)
    /\ SetN(t, [ntask[t] EXCEPT !.pc = "f_info"])
    /\ UNCHANGED <<revisions, fieldData, nextNid, nextVid, commentVars, probe>>

\* Where save_field_values goes after a statement on field fi that handled
\* the deltas below d: the next save of the field, else the next field's
\* delete, else the end
AfterField(c, fi, d) ==
    LET fields == with_field_info(c.type)
        P == IF fi = 0 THEN {} ELSE PendingDeltas(c.form, fields[fi], d)
    IN IF P # {}
       THEN [c EXCEPT !.pc = "f_save", !.fi = fi,
                      !.d = CHOOSE x \in P : \A y \in P : x <= y]
       ELSE IF fi < Len(fields)
       THEN [c EXCEPT !.pc = "f_delete", !.fi = fi + 1, !.d = 0]
       ELSE [c EXCEPT !.pc = "done", !.fi = 0, !.d = 0, !.form = <<>>]

\* save_field_values, NodeFieldInstance::with_field_info
FieldInfo(t) ==
    /\ ntask[t].pc = "f_info"
    /\ SetN(t, AfterField(ntask[t], 0, 0))
    /\ UNCHANGED <<node, revisions, fieldData, nextNid, nextVid, commentVars, probe>>

\* save_field_values, NodeFieldData::delete_for_revision of the field
FieldDelete(t) ==
    /\ ntask[t].pc = "f_delete"
    /\ fieldData' = DeleteForRevision(fieldData, ntask[t].vid,
                                      with_field_info(ntask[t].type)[ntask[t].fi].field_name)
    /\ SetN(t, AfterField(ntask[t], ntask[t].fi, 0))
    /\ UNCHANGED <<node, revisions, nextNid, nextVid, commentVars, probe>>

\* save_field_values, NodeFieldData::save of one non-empty input
FieldSave(t) ==
    /\ ntask[t].pc = "f_save"
    /\ LET c == ntask[t]
           field == with_field_info(c.type)[c.fi]
       IN /\ fieldData' = UpsertFieldData(fieldData,
                              FieldRow(c.nid, c.vid, field, c.d, c.form[FieldKey(field, c.d)]))
          /\ SetN(t, AfterField(c, c.fi, c.d + 1))
    /\ UNCHANGED <<node, revisions, nextNid, nextVid, commentVars, probe>>

\* handlers::admin::content_action, "delete", for one of the nids of the form
StartDeleteNode(t) ==
    /\ ntask[t].pc = "idle"
    /\ \E n \in node : SetN(t, [IdleN EXCEPT !.pc = "x_fields", !.op = "delete", !.nid = n.nid])
    /\ UNCHANGED <<node, revisions, fieldData, nextNid, nextVid, commentVars, probe>>

\* Mutant: the subquery without its WHERE
VidsOfNode_all(nid) == {v.vid : v \in revisions}

\* SELECT vid FROM node_revisions WHERE nid = ?
VidsOfNode(nid) == {v.vid : v \in {x \in revisions : x.nid = nid}}

\* Node::delete, DELETE FROM node_field_data WHERE vid IN (SELECT vid ...)
DeleteNodeFields(t) ==
    /\ ntask[t].pc = "x_fields"
    /\ fieldData' = {r \in fieldData : r.vid \notin VidsOfNode(ntask[t].nid)}
    /\ SetN(t, [ntask[t] EXCEPT !.pc = "x_revs"])
    /\ UNCHANGED <<node, revisions, nextNid, nextVid, commentVars, probe>>

\* Node::delete, DELETE FROM node_revisions WHERE nid = ?
DeleteNodeRevisions(t) ==
    /\ ntask[t].pc = "x_revs"
    /\ revisions' = {v \in revisions : v.nid # ntask[t].nid}
    /\ SetN(t, [ntask[t] EXCEPT !.pc = "x_node"])
    /\ UNCHANGED <<node, fieldData, nextNid, nextVid, commentVars, probe>>

\* Node::delete, DELETE FROM node WHERE nid = ?
DeleteNodeRow(t) ==
    /\ ntask[t].pc = "x_node"
    /\ node' = {n \in node : n.nid # ntask[t].nid}
    /\ SetN(t, [ntask[t] EXCEPT !.pc = "done"])
    /\ UNCHANGED <<revisions, fieldData, nextNid, nextVid, commentVars, probe>>

\* A storage error returned through `?`, or the request dropped at an await:
\* the statements already run are not undone
ContentRunning(t) == ntask[t].pc \notin {"idle", "done", "failed", "rejected"}

FailContent(t) ==
    /\ ContentRunning(t)
    /\ SetN(t, [ntask[t] EXCEPT !.pc = "failed", !.fi = 0, !.d = 0, !.form = <<>>])
    /\ UNCHANGED <<node, revisions, fieldData, nextNid, nextVid, commentVars, probe>>

ReturnContent(t) ==
    /\ ntask[t].pc \in {"done", "failed", "rejected"}
    /\ SetN(t, IdleN)
    /\ UNCHANGED <<node, revisions, fieldData, nextNid, nextVid, commentVars, probe>>

ContentOp(t, P) ==
    \/ StartCreate(t, P) \/ NodeInsert(t)
    \/ StartUpdate(t, P) \/ UpdateNode(t)
    \/ RevisionInsert(t) \/ SetVid(t)
    \/ FieldInfo(t) \/ FieldDelete(t) \/ FieldSave(t)
    \/ StartDeleteNode(t) \/ DeleteNodeFields(t) \/ DeleteNodeRevisions(t) \/ DeleteNodeRow(t)
    \/ FailContent(t)

-----------------------------------------------------------------------------
(* Specifications of the comment engine. *)

NoContentTask == [t \in Tasks |-> IdleN]
NoProbe == [fn |-> "none"]

\* A site with one content item and no comment yet
InitComment ==
    /\ node = {[nid |-> 1, vid |-> 1, type |-> "page", title |-> "a",
                 comment |-> COMMENT_NODE_READ_WRITE]}
    /\ revisions = {[vid |-> 1, nid |-> 1, uid |-> 1, title |-> "a", body |-> "x"]}
    /\ fieldData = {}
    /\ nextNid = 2
    /\ nextVid = 2
    /\ comments = {}
    /\ stats = {}
    /\ nextCid = 1
    /\ now = 1
    /\ ctask = [t \in Tasks |-> IdleC]
    /\ ntask = NoContentTask
    /\ probe = NoProbe

\* Requests served one at a time, each to its end or to its failure
NextCommentSeq == \E t \in SeqTasks : CommentOp(t, AnyRequest) \/ ReturnComment(t)
SpecCommentSeq == InitComment /\ [][NextCommentSeq]_vars

\* The same, with every request of one logged-in poster who posts without
\* approval within one second: the threads grow deeper
NextThreadSeq == \E t \in SeqTasks : CommentOp(t, ThreadRequest) \/ ReturnComment(t)
SpecThreadSeq == InitComment /\ [][NextThreadSeq]_vars

\* The same site after its first comment "00/" was posted: the state a
\* completed Comment::create leaves
InitCommentOne ==
    /\ node = {[nid |-> 1, vid |-> 1, type |-> "page", title |-> "a",
                 comment |-> COMMENT_NODE_READ_WRITE]}
    /\ revisions = {[vid |-> 1, nid |-> 1, uid |-> 1, title |-> "a", body |-> "x"]}
    /\ fieldData = {}
    /\ nextNid = 2
    /\ nextVid = 2
    /\ \E a \in Authors, st \in Statuses :
        LET c == [IdleC EXCEPT !.nid = 1, !.uid = a.uid, !.name = a.name, !.status = st,
                      !.ts = 1, !.thread = TopThreadFrom({}),
                      !.count = IF st = COMMENT_PUBLISHED THEN 1 ELSE 0]
        IN /\ comments = {CommentRow(1, c)}
           /\ stats = {UpdateStatsRow(c)}
    /\ nextCid = 2
    /\ now = 1
    /\ ctask = [t \in Tasks |-> IdleC]
    /\ ntask = NoContentTask
    /\ probe = NoProbe

\* Two requests served concurrently, their storage steps interleaved
ConcurrentRequest == [AnyRequest EXCEPT !.maxCid = 1 + Cardinality(Tasks)]
NextComment == \E t \in Tasks : CommentOp(t, ConcurrentRequest)
SpecComment == InitCommentOne /\ [][NextComment]_vars

\* The same two requests, either of which may also be an edit
EditRequest ==
    [authors |-> Authors, statuses |-> Statuses, maxCid |-> 1 + Cardinality(Tasks),
     maxTime |-> MaxTime, subjects |-> {"s1", "s2"}, bodies |-> {"b2"}]
NextCommentEdit == \E t \in Tasks : CommentOp(t, EditRequest) \/ EditOp(t, EditRequest)
SpecCommentEdit == InitCommentOne /\ [][NextCommentEdit]_vars

\* A site whose content item is in any comment mode and carries one comment,
\* posted while the item was open to comments; requests are served one at a
\* time, those that the handlers refuse included
ModeRequest ==
    [authors |-> Authors, statuses |-> {COMMENT_PUBLISHED}, maxCid |-> MaxCid + 1,
     maxTime |-> 1]
InitCommentMode ==
    /\ \E mode \in CommentModes :
        node = {[nid |-> 1, vid |-> 1, type |-> "page", title |-> "a", comment |-> mode]}
    /\ revisions = {[vid |-> 1, nid |-> 1, uid |-> 1, title |-> "a", body |-> "x"]}
    /\ fieldData = {}
    /\ nextNid = 2
    /\ nextVid = 2
    /\ \E a \in Authors :
        LET c == [IdleC EXCEPT !.nid = 1, !.uid = a.uid, !.name = a.name,
                      !.status = COMMENT_PUBLISHED, !.ts = 1, !.thread = TopThreadFrom({}),
                      !.count = 1]
        IN /\ comments = {CommentRow(1, c)}
           /\ stats = {UpdateStatsRow(c)}
    /\ nextCid = 2
    /\ now = 1
    /\ ctask = [t \in Tasks |-> IdleC]
    /\ ntask = NoContentTask
    /\ probe = NoProbe
NextCommentMode ==
    \E t \in SeqTasks :
        \/ CommentOp(t, ModeRequest)
        \/ RejectAdd(t) \/ RejectReply(t)
        \/ ReturnComment(t)
SpecCommentMode == InitCommentMode /\ [][NextCommentMode]_vars

-----------------------------------------------------------------------------
(* Properties of the comment engine. *)

PATH_00 == <<CH_0, CH_0, CH_SLASH>>
PATH_01 == <<CH_0, CH_0 + 1, CH_SLASH>>
PATH_00_00 == <<CH_0, CH_0, CH_DOT, CH_0, CH_0, CH_SLASH>>
PATH_00_01 == <<CH_0, CH_0, CH_DOT, CH_0, CH_0 + 1, CH_SLASH>>

Done(t, op) == ctask[t].pc = "done" /\ ctask[t].op = op

\* The published comments of a content item, read off the table
PublishedOf(nid) == {c \in comments : c.nid = nid /\ c.status = COMMENT_PUBLISHED}

\* C1: two replies to the same parent, their storage steps interleaved in any
\* way, never end up stored under the same thread path.
C1_ConcurrentRepliesDistinct ==
    \A t \in Tasks, u \in Tasks :
        (/\ t # u
         /\ Done(t, "create") /\ Done(u, "create")
         /\ ctask[t].pid # 0
         /\ ctask[t].pid = ctask[u].pid
         /\ ctask[t].nid = ctask[u].nid)
        => \A c \in find_by_cid(ctask[t].cid), d \in find_by_cid(ctask[u].cid) :
               c.thread # d.thread

\* C2: after every completed create or delete, run one at a time, the item's
\* comment_count is the number of its published comments.
C2_CountIsPublishedCount ==
    \A t \in Tasks :
        (ctask[t].pc = "done" /\ ctask[t].nid # 0)
        => \E s \in stats :
               /\ s.nid = ctask[t].nid
               /\ s.comment_count = Cardinality(PublishedOf(ctask[t].nid))

C2_Witness ==
    \E t \in Tasks :
        /\ Done(t, "create")
        /\ ctask[t].status = COMMENT_NOT_PUBLISHED
        /\ \E s \in stats : s.nid = ctask[t].nid /\ s.comment_count = 1
        /\ Cardinality({c \in comments : c.nid = ctask[t].nid}) = 2

\* The rows a fresh aggregate over the comment table may give for an item:
\* the fields of a published comment of the greatest timestamp with the
\* number of published comments, or the empty row when there is none
FreshAggregate(nid) ==
    IF PublishedOf(nid) = {}
    THEN {StatsRow(nid, 0, NULL, 0, 0)}
    ELSE {StatsRow(nid, c.timestamp, c.name, c.uid, Cardinality(PublishedOf(nid))) :
              c \in {x \in PublishedOf(nid) :
                         \A y \in PublishedOf(nid) : y.timestamp <= x.timestamp}}

\* C3: after every completed create or delete, run one at a time, the item's
\* whole statistics row is what a fresh aggregate gives, also when the
\* comment just created awaits moderation.
C3_StatsAreFreshAggregate ==
    \A t \in Tasks :
        (ctask[t].pc = "done" /\ ctask[t].nid # 0)
        => \E s \in stats : s.nid = ctask[t].nid /\ s \in FreshAggregate(s.nid)

\* C9: an insert whose computed thread path is already used by a comment of
\* the same content item is refused: the step stores nothing.
PathInUse(t) ==
    \E c \in comments : c.nid = ctask[t].nid /\ c.thread = ctask[t].thread

C9_UsedPathRefused ==
    [][\A t \in Tasks :
          (ctask[t].pc = "c_insert" /\ ctask'[t].pc # "c_insert" /\ PathInUse(t))
          => (comments' = comments /\ ctask'[t].pc # "c_count")]_vars

\* C10: with no delete so far, the k-th top-level comment of an item has
\* path encode(k) "/", and the k-th reply to a parent of path P "/" has path
\* P "." encode(k) "/", whatever descendants its earlier siblings have.
NoDeleteYet == Cardinality(comments) = nextCid - 1

SiblingIndex(c) ==
    Cardinality({d \in comments : d.nid = c.nid /\ d.pid = c.pid /\ d.cid < c.cid})

ExpectedPath(c) ==
    IF c.pid = 0
    THEN int_to_vancode(U32(SiblingIndex(c))) \o <<CH_SLASH>>
    ELSE LET p == CHOOSE x \in comments : x.cid = c.pid
         IN SubSeq(p.thread, 1, Len(p.thread) - 1) \o <<CH_DOT>>
                \o int_to_vancode(U32(SiblingIndex(c))) \o <<CH_SLASH>>

C10_SequentialPaths ==
    NoDeleteYet => \A c \in comments : c.thread = ExpectedPath(c)

C10_Witness ==
    /\ NoDeleteYet
    /\ {c.thread : c \in comments} = {PATH_00, PATH_00_00, PATH_00_01, PATH_01}
    /\ \E c \in comments : c.thread = PATH_01 /\ c.cid = 4

\* One group of base-36 digits as int_to_vancode writes it
IsDigitGroup(s) ==
    /\ Len(s) >= VancodeMinWidth
    /\ \A i \in 1..Len(s) :
          \/ (s[i] >= CH_0 /\ s[i] <= CH_0 + 9)
          \/ (s[i] >= CH_a /\ s[i] <= CH_a + 25)

\* C11: in every state, a stored reply whose parent comment is still stored
\* has the parent's path without its final "/", then ".", then one digit
\* group, then "/".
C11_ChildExtendsParent ==
    \A c \in comments :
        c.pid # 0
        => \A p \in find_by_cid(c.pid) :
              LET pre == Append(DropLast(p.thread), CH_DOT)
              IN /\ p.thread[Len(p.thread)] = CH_SLASH
                 /\ StartsWith(c.thread, pre)
                 /\ Len(c.thread) > Len(pre)
                 /\ c.thread[Len(c.thread)] = CH_SLASH
                 /\ IsDigitGroup(SubSeq(c.thread, Len(pre) + 1, Len(c.thread) - 1))

\* A reply to a reply, both parents still stored, written while another
\* request was running
C11_Witness ==
    \E c \in comments, p \in comments, g \in comments :
        /\ c.pid = p.cid /\ p.pid = g.cid /\ g.pid = 0
        /\ c.thread = DropLast(PATH_00_00) \o <<CH_DOT, CH_0, CH_0, CH_SLASH>>

\* The cids on the way from the top-level ancestor down to the comment
RECURSIVE Chain(_)
Chain(c) ==
    IF c.pid = 0 \/ find_by_cid(c.pid) = {} THEN <<c.cid>>
    ELSE Append(Chain(CHOOSE p \in find_by_cid(c.pid) : TRUE), c.cid)

\* Depth-first order with siblings in creation order: a comment's chain is a
\* proper prefix of the other's, or at the first difference its cid is smaller
DepthFirstBefore(a, b) == StrLess(Chain(a), Chain(b))

\* C12: while every comment created is still stored, find_for_node lists the
\* comments of an item depth-first: each comment before its descendants and
\* after the subtrees of its earlier siblings, siblings in creation order.
C12_ListIsDepthFirst ==
    NoDeleteYet
    => \A n \in node : \A flag \in BOOLEAN :
          LET L == find_for_node(n.nid, flag)
          IN \A i \in 1..Len(L) : \A j \in 1..Len(L) :
                i < j => DepthFirstBefore(L[i], L[j])

\* Comment 1 with the replies 2 and 3, and comment 4 a reply to 2: the
\* listing puts 4 between 2 and 3
C12_Witness ==
    /\ NoDeleteYet
    /\ \E n \in node :
          LET L == find_for_node(n.nid, TRUE)
          IN /\ Len(L) = 4
             /\ [i \in 1..4 |-> L[i].cid] = <<1, 2, 4, 3>>
             /\ [i \in 1..4 |-> L[i].pid] = <<0, 1, 2, 1>>

-----------------------------------------------------------------------------
(* Specifications of the revision store and the field engine. *)

\* The requests a specification draws
AnyContent == [types |-> {"page"}, titles |-> Titles, forms |-> Forms, maxVid |-> MaxVid, maxNid |-> MaxNidIssued]
ConcurrentContent ==
    [AnyContent EXCEPT !.maxVid = 1 + Cardinality(Tasks), !.maxNid = 1 + Cardinality(Tasks)]

\* The rows a completed save_field_values leaves for a revision
SavedRowsFor(node_type, nid, vid, form) ==
    LET fields == with_field_info(node_type)
    IN {FieldRow(nid, vid, fields[x[1]], x[2], form[FieldKey(fields[x[1]], x[2])]) :
           x \in {y \in (1..Len(fields)) \X (0..(DeltaCap - 1)) :
                     /\ y[2] \in FieldDeltas(fields[y[1]])
                     /\ HasInput(form, fields[y[1]], y[2])}}

SavedRows(nid, vid, form) == SavedRowsFor("page", nid, vid, form)

NoCommentTask == [t \in Tasks |-> IdleC]

\* A freshly installed site
InitContent ==
    /\ node = {}
    /\ revisions = {}
    /\ fieldData = {}
    /\ nextNid = 1
    /\ nextVid = 1
    /\ comments = {}
    /\ stats = {}
    /\ nextCid = 1
    /\ now = 1
    /\ ctask = NoCommentTask
    /\ ntask = NoContentTask
    /\ probe = NoProbe

\* Requests served one at a time, each to its end or to its failure
NextContentSeq == \E t \in SeqTasks : ContentOp(t, AnyContent) \/ ReturnContent(t)
SpecContentSeq == InitContent /\ [][NextContentSeq]_vars

\* A site after its first content item was created by add_submit
InitContentOne ==
    /\ \E ti \in Titles, f \in Forms :
        LET c == [IdleN EXCEPT !.nid = 1, !.title = ti]
        IN /\ node = {[nid |-> 1, vid |-> 1, type |-> "page", title |-> ti,
                        comment |-> NodeCommentDefault]}
           /\ revisions = {RevisionRow(1, c)}
           /\ fieldData = SavedRows(1, 1, f)
    /\ nextNid = 2
    /\ nextVid = 2
    /\ comments = {}
    /\ stats = {}
    /\ nextCid = 1
    /\ now = 1
    /\ ctask = NoCommentTask
    /\ ntask = NoContentTask
    /\ probe = NoProbe

\* Two requests served concurrently, their storage steps interleaved
NextContent == \E t \in Tasks : ContentOp(t, ConcurrentContent)
SpecContent == InitContentOne /\ [][NextContent]_vars

\* The requests of the field engine: a known and an unknown content type, a
\* title that may be empty, forms for the fields of "review"
FieldContent ==
    [types |-> {"review", "ghost"}, titles |-> {"a", ""}, forms |-> ReviewForms,
     maxVid |-> MaxFieldVid, maxNid |-> 1]

\* Requests served one at a time and to their end on a fresh site, with
\* save_field_values also called again for stored revisions
NextField ==
    \E t \in SeqTasks :
        \/ StartCreate(t, FieldContent) \/ NodeInsert(t)
        \/ StartUpdate(t, FieldContent) \/ UpdateNode(t)
        \/ RevisionInsert(t) \/ SetVid(t)
        \/ FieldInfo(t) \/ FieldDelete(t) \/ FieldSave(t)
        \/ RejectCreate(t, FieldContent)
        \/ RejectUpdate(t, FieldContent)
        \/ StartSave(t, FieldContent)
        \/ ReturnContent(t)
SpecField == InitContent /\ [][NextField]_vars

-----------------------------------------------------------------------------
(* Properties of the revision store and the field engine. *)

RevisionsOf(nid) == {r \in revisions : r.nid = nid}
HeadOf(nid) == {n.vid : n \in {x \in node : x.nid = nid}}
DoneN(t, op) == ntask[t].pc = "done" /\ ntask[t].op = op
Stepped(t) == ntask'[t] # ntask[t]

\* C4: in every state, also between the storage steps of create and update,
\* every content row's vid names a stored revision of that content item.
C4_HeadAlwaysValid ==
    \A n \in node : \E r \in revisions : r.vid = n.vid /\ r.nid = n.nid

\* C5: every step of an update leaves the stored revisions as they are; its
\* insert adds exactly one revision, of an id above every id issued before;
\* its last statement points the head at it; and when the update, run after
\* the earlier requests ended, is complete the head is the newest revision.
C5_UpdateSteps ==
    \A t \in Tasks :
        (ntask[t].op = "update" /\ Stepped(t))
        => /\ revisions \subseteq revisions'
           /\ ntask[t].pc # "r_insert" => revisions' = revisions
           /\ (ntask[t].pc = "r_insert" /\ ntask'[t].pc # "failed")
              => \E r \in revisions' \ revisions :
                    /\ revisions' = revisions \cup {r}
                    /\ r.nid = ntask[t].nid
                    /\ r.vid >= nextVid
                    /\ \A old \in revisions : old.vid < r.vid
                    /\ ntask'[t].vid = r.vid
           /\ (ntask[t].pc = "n_setvid" /\ ntask'[t].pc # "failed")
              => HeadOf(ntask[t].nid)' = {ntask[t].vid}

C5_HeadIsNewest ==
    \A t \in Tasks :
        DoneN(t, "update")
        => /\ HeadOf(ntask[t].nid) = {ntask[t].vid}
           /\ \A r \in revisions : r.vid <= ntask[t].vid

C5_UpdateAddsRevision == [][C5_UpdateSteps]_vars /\ []C5_HeadIsNewest

C5_Witness ==
    \E t \in Tasks :
        /\ DoneN(t, "update")
        /\ ntask[t].vid = 3
        /\ {r.vid : r \in RevisionsOf(ntask[t].nid)} = {1, 2, 3}
        /\ HeadOf(ntask[t].nid) = {3}

\* C6: a request that saves field values for revision r changes no row of
\* another revision: before its revision exists it changes no row at all,
\* afterwards only rows whose vid is r.
OtherRows(rows, vid) == {r \in rows : r.vid # vid}

C6_SaveTouchesOwnRevision ==
    [][\A t \in Tasks :
          (ntask[t].op \in {"create", "update"} /\ Stepped(t))
          => OtherRows(fieldData', ntask[t].vid) = OtherRows(fieldData, ntask[t].vid)]_vars

C6_Witness ==
    \E t \in Tasks :
        /\ DoneN(t, "update")
        /\ ntask[t].vid = 2
        /\ \E r \in fieldData : r.vid = 1 /\ r.field_name = "subtitle" /\ r.value_text = Some(S_s1)
        /\ \E r \in fieldData : r.vid = 2 /\ r.field_name = "subtitle" /\ r.value_text = Some(S_s2)
        /\ ~\E r \in fieldData : r.vid = 2 /\ r.field_name = "rating" /\ r.delta = 0

\* C7: once two concurrent updates of one content item are both complete,
\* the head is the greatest revision id of the item.
C7_HeadIsLatestAfterBoth ==
    \A t \in Tasks, u \in Tasks :
        (t # u /\ DoneN(t, "update") /\ DoneN(u, "update") /\ ntask[t].nid = ntask[u].nid)
        => \A v \in HeadOf(ntask[t].nid) : \A r \in RevisionsOf(ntask[t].nid) : r.vid <= v

\* C8: a request that stopped after one of its storage steps leaves none of
\* its writes: not the content row or the revision it inserted, not a head
\* pointing at its revision, not the comment it inserted.
C8_FailedLeavesNothing ==
    /\ \A t \in Tasks :
          (ntask[t].pc = "failed" /\ ntask[t].op \in {"create", "update"})
          => /\ ntask[t].vid # 0 => ~\E r \in revisions : r.vid = ntask[t].vid
             /\ ntask[t].vid # 0 => ~\E n \in node : n.vid = ntask[t].vid
             /\ (ntask[t].op = "create" /\ ntask[t].nid # 0)
                => ~\E n \in node : n.nid = ntask[t].nid
    /\ \A t \in Tasks :
          (ctask[t].pc = "failed" /\ ctask[t].op = "create" /\ ctask[t].cid # 0)
          => find_by_cid(ctask[t].cid) = {}

-----------------------------------------------------------------------------
(* Properties of the field engine. *)

RowsOf(rows, vid) == {r \in rows : r.vid = vid}
FieldRowsOf(rows, vid, field_name) == {r \in rows : r.vid = vid /\ r.field_name = field_name}
Saving(t) == ntask[t].pc \in {"f_info", "f_delete", "f_save"}

\* The step that ends a save_field_values call of task t
SaveEnds(t) == Saving(t) /\ ntask'[t].pc = "done"

\* C13: when save_field_values ends, the revision holds exactly the rows of
\* the inputs of this call, whatever an earlier call for the same revision
\* stored: the rows a call on an empty revision stores, none of them twice
\* for one field and delta.
C13_SecondSaveReplaces ==
    [][\A t \in Tasks :
          SaveEnds(t)
          => LET c == ntask[t]
                 rows == RowsOf(fieldData', c.vid)
             IN /\ rows = SavedRowsFor(c.type, c.nid, c.vid, c.form)
                /\ \A a \in rows : \A b \in rows :
                      (a.field_name = b.field_name /\ a.delta = b.delta) => a = b]_vars

\* A second call for a stored revision, past the first fields: the subtitle
\* stored by the earlier call differs from the input still to be written
C13_Witness ==
    \E t \in Tasks :
        LET c == ntask[t]
        IN /\ c.op = "save" /\ c.pc \in {"f_delete", "f_save"} /\ c.fi >= 2
           /\ KeySingle("subtitle") \in DOMAIN c.form
           /\ \E r \in FieldRowsOf(fieldData, c.vid, "subtitle") :
                 r.value_text # Some(c.form[KeySingle("subtitle")])
           /\ \E r \in FieldRowsOf(fieldData, c.vid, "rating") : r.delta = 1

\* C14: whenever no save_field_values call is under way, the deltas stored
\* for a revision and a field are 0, 1, ..., n-1.
C14_DeltasContiguous ==
    (\A t \in Tasks : ~Saving(t))
    => \A r \in fieldData :
          r.delta > 0
          => \E q \in fieldData :
                q.vid = r.vid /\ q.field_name = r.field_name /\ q.delta = r.delta - 1

\* The column a field type stores its value in
ValueKind(field_name) ==
    LET f == CHOOSE x \in node_field : x.field_name = field_name
    IN IF f.field_type \in {"integer", "number_integer", "boolean", "checkbox"} THEN "int"
       ELSE IF f.field_type \in {"decimal", "float", "number_decimal"} THEN "float"
       ELSE "text"

\* C15: every stored row has exactly one of value_text, value_int and
\* value_float populated, the one of its field's kind; so an input of an
\* integer or float field that does not parse has stored no row.
C15_UnparsedIsDropped ==
    \A r \in fieldData :
        /\ (r.value_text # None) <=> (ValueKind(r.field_name) = "text")
        /\ (r.value_int # None) <=> (ValueKind(r.field_name) = "int")
        /\ (r.value_float # None) <=> (ValueKind(r.field_name) = "float")

\* "true" in any mix of upper and lower case
IsTrueWord(v) ==
    /\ Len(v) = 4
    /\ v[1] \in {116, 84} /\ v[2] \in {114, 82} /\ v[3] \in {117, 85} /\ v[4] \in {101, 69}

\* C16: when save_field_values ends, every non-empty input of a boolean
\* field has its row, holding 1 for "1" and for "true" in any case and 0 for
\* anything else, and every non-empty input of a text field has its row,
\* holding the input unchanged.
C16_BooleanAndTextAlwaysStored ==
    [][\A t \in Tasks :
          SaveEnds(t)
          => LET c == ntask[t]
                 fields == with_field_info(c.type)
             IN \A i \in 1..Len(fields) :
                   LET key == KeySingle(fields[i].field_name)
                       input == IF key \in DOMAIN c.form THEN c.form[key] ELSE <<>>
                       rows == FieldRowsOf(fieldData', c.vid, fields[i].field_name)
                   IN (fields[i].cardinality = 1 /\ input # <<>>)
                      => /\ fields[i].field_type = "boolean"
                            => rows = {[nid |-> c.nid, vid |-> c.vid,
                                        field_name |-> fields[i].field_name, delta |-> 0,
                                        value_text |-> None,
                                        value_int |-> IF input = <<49>> \/ IsTrueWord(input)
                                                      THEN Some(1) ELSE Some(0),
                                        value_float |-> None]}
                         /\ fields[i].field_type = "text"
                            => rows = {[nid |-> c.nid, vid |-> c.vid,
                                        field_name |-> fields[i].field_name, delta |-> 0,
                                        value_text |-> Some(input),
                                        value_int |-> None,
                                        value_float |-> None]}]_vars

\* One revision saved from the form with flag "True", another from the form
\* with flag "x"
C16_Witness ==
    /\ \E r \in fieldData, q \in fieldData :
          /\ r.vid = q.vid
          /\ r.field_name = "flag" /\ r.value_int = Some(1)
          /\ q.field_name = "subtitle" /\ q.value_text = Some(S_s2)
    /\ \E r \in fieldData : r.field_name = "flag" /\ r.value_int = Some(0)
    /\ \A t \in Tasks : ~Saving(t)

\* C17: when save_field_values ends, a field of cardinality 1 has a row, at
\* delta 0, exactly when "field_{name}" is a non-empty input, and any other
\* field has rows at exactly the d in 0..9 for which "field_{name}_{d}" is a
\* non-empty input; each row holds the value of that input.
C17_KeysRead ==
    [][\A t \in Tasks :
          SaveEnds(t)
          => LET c == ntask[t]
                 fields == with_field_info(c.type)
                 Filled(key) == key \in DOMAIN c.form /\ c.form[key] # <<>>
             IN \A i \in 1..Len(fields) :
                   LET name == fields[i].field_name
                       rows == FieldRowsOf(fieldData', c.vid, name)
                   IN /\ Cardinality(rows) <= 10
                      /\ IF fields[i].cardinality = 1
                         THEN rows = IF Filled(KeySingle(name))
                                     THEN {FieldRow(c.nid, c.vid, fields[i], 0,
                                                    c.form[KeySingle(name)])}
                                     ELSE {}
                         ELSE rows = {FieldRow(c.nid, c.vid, fields[i], d,
                                               c.form[KeyMulti(name, d)]) :
                                         d \in {x \in 0..9 : Filled(KeyMulti(name, x))}}]_vars

\* A revision saved from the form that fills rating_0, rating_2, rating_10
\* and "field_rating" of the field of cardinality 2, and both subtitle keys
C17_Witness ==
    \E v \in revisions :
        /\ {r.delta : r \in FieldRowsOf(fieldData, v.vid, "rating")} = {0, 2}
        /\ {r.value_text : r \in FieldRowsOf(fieldData, v.vid, "subtitle")} = {Some(S_s1)}
        /\ \A t \in Tasks : ~Saving(t)

\* C18: get_fields_with_values has one entry per field instance of the
\* content type, ordered by weight and then label; an entry lists the rows
\* stored for the revision and the field by increasing delta, and is empty
\* when there is none.
C18_LoadValues ==
    \A ty \in NodeTypes : \A v \in revisions :
        LET L == get_fields_with_values(ty, v.vid)
            inst == {x \in node_field_instance : x.node_type = ty}
        IN /\ Len(L) = Cardinality(inst)
           /\ {L[i].field_name : i \in 1..Len(L)} = {x.field_name : x \in inst}
           /\ \A i \in 1..Len(L) : \A j \in 1..Len(L) :
                 i < j => \/ L[i].weight < L[j].weight
                          \/ (L[i].weight = L[j].weight /\ ~StrLess(L[j].label, L[i].label))
           /\ \A i \in 1..Len(L) :
                 LET vs == L[i].values
                 IN /\ \A a \in 1..Len(vs) : \A b \in 1..Len(vs) :
                          a < b => vs[a].delta < vs[b].delta
                    /\ {vs[a] : a \in 1..Len(vs)} =
                          {[delta |-> r.delta, value_text |-> r.value_text,
                            value_int |-> r.value_int, value_float |-> r.value_float] :
                              r \in FieldRowsOf(fieldData, v.vid, L[i].field_name)}

\* A revision of a "review" with two ratings and no score
C18_Witness ==
    \E v \in revisions :
        LET L == get_fields_with_values("review", v.vid)
        IN /\ [i \in 1..Len(L) |-> L[i].field_name] = <<"rating", "score", "flag", "subtitle">>
           /\ Len(L[1].values) = 2
           /\ L[2].values = <<>>
           /\ Len(L[4].values) = 1

\* C20: a create request for a content type that is not known ends with
\* ValidationError.
C20_UnknownTypeIsValidationError ==
    \A t \in Tasks :
        (ntask[t].pc = "rejected" /\ ntask[t].op = "create" /\ ntask[t].type \notin NodeTypes)
        => ntask[t].err = "ValidationError"

\* C19: at the step that ends Node::delete for item c, the node row of c,
\* every revision of c and every field row of c or of one of its revisions
\* are gone; and no step of the delete changes a row of another item.
C19_DeleteCascades ==
    [][\A t \in Tasks :
          (ntask[t].op = "delete" /\ Stepped(t))
          => LET c == ntask[t].nid
             IN /\ {n \in node' : n.nid # c} = {n \in node : n.nid # c}
                /\ {v \in revisions' : v.nid # c} = {v \in revisions : v.nid # c}
                /\ {r \in fieldData' : r.nid # c} = {r \in fieldData : r.nid # c}
                /\ ntask'[t].pc = "done"
                   => /\ ~\E n \in node' : n.nid = c
                      /\ ~\E v \in revisions' : v.nid = c
                      /\ ~\E r \in fieldData' : r.nid = c]_vars

\* Item 2, created and updated once, was deleted: its revisions 2 and 3 are
\* gone, item 1 keeps its revision and its field rows
C19_Witness ==
    \E t \in Tasks :
        /\ DoneN(t, "delete") /\ ntask[t].nid = 2
        /\ nextVid = 4
        /\ {n.nid : n \in node} = {1}
        /\ {v.vid : v \in revisions} = {1}
        /\ {r.vid : r \in fieldData} = {1}

-----------------------------------------------------------------------------
(* Properties of missing content items and of the comment handlers. *)

\* C21: no step of an update whose content item has no row inserts a revision
\* or a field row, also when the row went away after edit_submit had found it.
C21_MissingItemUpdateWritesNothing ==
    [][\A t \in Tasks :
          (/\ ntask[t].op = "update"
           /\ Stepped(t)
           /\ ~\E n \in node : n.nid = ntask[t].nid)
          => (revisions' = revisions /\ fieldData' = fieldData)]_vars

\* The comment mode of the request's content item refuses the request: the
\* item is closed to comments, or it is read-only and the request is a reply
Refused(c) ==
    \E n \in node :
        /\ n.nid = c.nid
        /\ \/ n.comment = COMMENT_NODE_DISABLED
           \/ c.pid # 0 /\ n.comment = COMMENT_NODE_READ_ONLY

\* C22: a request to post a comment on an item closed to comments, or a reply
\* on a read-only item, takes no step that changes the comments or the
\* statistics, and when it ends without a storage error it ends refused.
C22_ClosedItemRefusesComment ==
    [][\A t \in Tasks :
          (/\ ctask'[t] # ctask[t]
           /\ ctask'[t].op = "create"
           /\ Refused(ctask'[t]))
          => /\ comments' = comments
             /\ stats' = stats
             /\ ctask'[t].pc \in {"r_node", "rejected", "failed"}
             /\ ctask'[t].pc = "rejected" => ctask'[t].err = "Forbidden"]_vars

C22_Witness ==
    \E t \in Tasks :
        /\ ctask[t].pc = "rejected" /\ ctask[t].err = "Forbidden"
        /\ ctask[t].pid # 0
        /\ \E n \in node : n.nid = ctask[t].nid /\ n.comment = COMMENT_NODE_READ_ONLY

\* The rows that list_thread returns for a content item
Listed(nid, include_unpublished) ==
    LET rows == find_for_node(nid, include_unpublished)
    IN {rows[i] : i \in DOMAIN rows}

\* C23: the DELETE of delete_comment removes the row of its comment and no
\* other: every other comment, the replies below it included, keeps its row
\* as it is and stays in the thread listing; the other steps of the delete
\* leave the comments alone.
C23_DeleteRemovesOneRow ==
    [][\A t \in Tasks :
          (ctask[t].op = "delete" /\ ctask'[t] # ctask[t])
          => LET gone == IF ctask[t].pc = "d_delete" /\ ctask'[t].pc # "failed"
                         THEN find_by_cid(ctask[t].cid) ELSE {}
             IN /\ comments' = comments \ gone
                /\ \A n \in node, flag \in BOOLEAN :
                      Listed(n.nid, flag)' = Listed(n.nid, flag) \ gone]_vars

\* A delete is complete, and a reply to the deleted comment is still stored
\* and listed
C23_Witness ==
    \E t \in Tasks :
        /\ Done(t, "delete") /\ ctask[t].found
        /\ find_by_cid(ctask[t].cid) = {}
        /\ \E c \in comments :
              /\ c.pid = ctask[t].cid
              /\ c \in Listed(ctask[t].nid, TRUE)

\* C24: when a delete_comment that found its comment is complete and the
\* content item has no published comment, the item's statistics row is the
\* zero row: count 0, last comment time 0, last author 0, no display name.
C24_EmptyThreadHasZeroStats ==
    \A t \in Tasks :
        (/\ Done(t, "delete") /\ ctask[t].found
         /\ PublishedOf(ctask[t].nid) = {})
        => {s \in stats : s.nid = ctask[t].nid} = {StatsRow(ctask[t].nid, 0, NULL, 0, 0)}

\* Such a delete is complete while a comment awaiting moderation remains
C24_Witness ==
    \E t \in Tasks :
        /\ Done(t, "delete") /\ ctask[t].found
        /\ PublishedOf(ctask[t].nid) = {}
        /\ \E c \in comments : c.nid = ctask[t].nid /\ c.status = COMMENT_NOT_PUBLISHED
        /\ StatsRow(ctask[t].nid, 0, NULL, 0, 0) \in stats

\* C25: no step changes the status, thread path, parent or content item of a
\* stored comment; a step of an edit changes at most the subject and body of
\* its comment and no row else; and a row that appears carries an id that was
\* never issued before, so a deleted comment does not come back.
C25_CommentIdentityFixed ==
    [][/\ \A c \in comments, d \in comments' :
             d.cid = c.cid
             => /\ d.status = c.status /\ d.thread = c.thread
                /\ d.pid = c.pid /\ d.nid = c.nid
       /\ \A t \in Tasks :
             (ctask[t].op = "edit" /\ ctask'[t] # ctask[t])
             => /\ {d.cid : d \in comments'} = {c.cid : c \in comments}
                /\ \A c \in comments :
                      \/ c \in comments'
                      \/ /\ c.cid = ctask[t].cid
                         /\ [c EXCEPT !.subject = ctask[t].subject, !.comment = ctask[t].body]
                               \in comments'
       /\ \A d \in comments' :
             (~\E c \in comments : c.cid = d.cid) => d.cid = nextCid /\ nextCid' > nextCid
       /\ nextCid' >= nextCid
       /\ \A c \in comments : c.cid < nextCid]_vars

\* An edit of a comment that awaits moderation is complete: subject and body
\* are the edited ones, the comment still awaits moderation
C25_Witness ==
    \E t \in Tasks :
        /\ Done(t, "edit")
        /\ \E c \in comments :
              /\ c.cid = ctask[t].cid
              /\ c.subject = "s2" /\ c.comment = "b2"
              /\ c.status = COMMENT_NOT_PUBLISHED
              /\ c.thread = PATH_00

-----------------------------------------------------------------------------
(* Functions of the program applied on their own: the tables are empty, no   *)
(* request is in flight, the probe holds the input and then the result.      *)

NoSite ==
    /\ node = {} /\ revisions = {} /\ fieldData = {} /\ comments = {} /\ stats = {}
    /\ nextNid = 1 /\ nextVid = 1 /\ nextCid = 1 /\ now = 1
    /\ ctask = NoCommentTask /\ ntask = NoContentTask

NoSiteChange == UNCHANGED <<contentVars, commentVars>>

\* n + 1 in u32, wrapping
U32Succ(n) ==
    IF n[2] + 1 < Limb THEN <<n[1], n[2] + 1>> ELSE <<(n[1] + 1) % Limb, 0>>

\* The numbers around the powers of 36, around 2^31 and at the end of u32
CodecEdges ==
    {U32(i) : i \in {46655, 46656, 1679615, 1679616, 60466175, 60466176, 2147483647}}
    \cup {<<33215, 4095>>, <<33215, 4096>>, <<32768, 0>>, <<65535, 65534>>, <<65535, 65535>>}

CodecSamples == {U32(i) : i \in 0..MaxCodecSmall} \cup CodecEdges

InitCodec ==
    /\ NoSite
    /\ \E a \in CodecSamples :
        \E b \in {U32Succ(a)} \cup CodecEdges \cup {U32(i) : i \in 0..MaxCodecPair} :
            probe = [fn |-> "vancode", pc |-> "in", a |-> a, b |-> b, ea |-> <<>>, eb |-> <<>>,
                     back |-> <<0, 0>>, overflow |-> FALSE]

Encode ==
    /\ probe.pc = "in"
    /\ probe' = [probe EXCEPT !.pc = "encoded", !.ea = int_to_vancode(probe.a),
                              !.eb = int_to_vancode(probe.b)]
    /\ NoSiteChange

Decode ==
    /\ probe.pc = "encoded"
    /\ probe' = [probe EXCEPT !.pc = "decoded", !.back = vancode_to_int(probe.ea),
                              !.overflow = vancode_to_int_overflows(probe.ea)]
    /\ NoSiteChange

NextCodec == Encode \/ Decode
SpecCodec == InitCodec /\ [][NextCodec]_vars

\* C26: decoding the encoding of a u32 gives the number back, without an
\* overflow on the way.
C26_DecodeInvertsEncode ==
    probe.pc = "decoded" => probe.back = probe.a /\ ~probe.overflow

\* The greatest u32 went through both functions
C26_Witness ==
    /\ probe.pc = "decoded"
    /\ probe.a = <<65535, 65535>>
    /\ Len(probe.ea) = 7
    /\ probe.back = <<65535, 65535>>

\* C27: of two numbers whose encodings have the same length, the smaller
\* has the encoding that is smaller in the order of strings.
C27_EncodeKeepsOrder ==
    (/\ probe.pc \in {"encoded", "decoded"}
     /\ U32Less(probe.a, probe.b)
     /\ Len(probe.ea) = Len(probe.eb))
    => StrLess(probe.ea, probe.eb)

\* 35 and 36 are encoded "0z" and "10"
C27_Witness ==
    /\ probe.pc = "encoded"
    /\ probe.a = U32(35) /\ probe.b = U32(36)
    /\ probe.ea = <<CH_0, CH_a + 25>> /\ probe.eb = <<CH_0 + 1, CH_0>>

\* A String is the sequence of its characters, each one its Unicode scalar
\* value; the bytes a character takes in the String follow from the value
CH_LF == 10       \* '\n'
CH_x == 120       \* 'x', one byte
CH_e_acute == 233 \* U+00E9, two bytes
TeaserChars == 600

BlankLines(s) == {i \in 1..(Len(s) - 1) : s[i] = CH_LF /\ s[i + 1] = CH_LF}

\* str::split("\n\n").next(): the part before the first "\n\n", all of the
\* string when there is none
BeforeBlankLine(s) ==
    IF BlankLines(s) = {} THEN s
    ELSE SubSeq(s, 1, (CHOOSE i \in BlankLines(s) : \A j \in BlankLines(s) : i <= j) - 1)

\* chars().take(n).collect::<String>()
TakeChars(s, n) == SubSeq(s, 1, Min(Len(s), n))

\* Mutant: the body is split first and cut to 600 characters afterwards
teaser_excerpt_split_first(body) == TakeChars(BeforeBlankLine(body), TeaserChars)

\* add_submit and edit_submit: the teaser of a body
teaser_excerpt(body) == BeforeBlankLine(TakeChars(body, TeaserChars))

Rep(c, n) == [i \in 1..n |-> c]

\* Bodies: a run of one character, a separator, a second run, a separator, a
\* third run; the runs end around character 50 and around character 600
TeaserBodies ==
    {Rep(c, n1) \o sep1 \o Rep(c, n2) \o sep2 \o Rep(c, n3) :
        c \in {CH_x, CH_e_acute},
        n1 \in {0, 1, 50, TeaserChars - 2, TeaserChars - 1, TeaserChars, TeaserChars + 1},
        sep1 \in {<<>>, <<CH_LF>>, <<CH_LF, CH_LF>>, <<CH_LF, CH_LF, CH_LF>>},
        n2 \in {0, 1, TeaserChars - 52},
        sep2 \in {<<>>, <<CH_LF, CH_LF>>},
        n3 \in {0, 3}}

InitTeaser ==
    /\ NoSite
    /\ \E body \in TeaserBodies : probe = [fn |-> "teaser", pc |-> "in", body |-> body, out |-> <<>>]

Excerpt ==
    /\ probe.pc = "in"
    /\ probe' = [probe EXCEPT !.pc = "out", !.out = teaser_excerpt(probe.body)]
    /\ NoSiteChange

NextTeaser == Excerpt
SpecTeaser == InitTeaser /\ [][NextTeaser]_vars

\* C28: the teaser is the part of the body's first 600 characters that
\* precedes the first blank line lying within them, and all 600 (or the whole
\* shorter body) when there is none: a body of less than 600 characters
\* without a blank line is its own teaser, and a body whose first blank line
\* follows 50 characters has those 50 as its teaser.
C28_TeaserIsHeadBeforeBlankLine ==
    probe.pc = "out" =>
        LET body == probe.body
            out == probe.out
            slice == [i \in 1..Min(Len(body), TeaserChars) |-> body[i]]
            inside == {p \in 1..(Len(slice) - 1) : slice[p] = CH_LF /\ slice[p + 1] = CH_LF}
        IN /\ inside = {} => out = slice
           /\ \A p \in inside :
                 (\A q \in inside : p <= q) => out = [i \in 1..(p - 1) |-> slice[i]]
           /\ (Len(body) < TeaserChars /\ inside = {}) => out = body
           /\ (51 \in inside /\ \A q \in inside : 51 <= q) => out = [i \in 1..50 |-> body[i]]

\* A body of two-byte characters whose only blank line begins with the
\* 600th character: the teaser is the 600 characters, the line feed included
C28_Witness ==
    /\ probe.pc = "out"
    /\ probe.body = Rep(CH_e_acute, TeaserChars - 1) \o <<CH_LF, CH_LF>> \o Rep(CH_e_acute, 1)
    /\ probe.out = Append(Rep(CH_e_acute, TeaserChars - 1), CH_LF)

CH_SPACE == 32       \* ' '
CH_euro == 8364      \* U+20AC, three bytes
SubjectMax == 60
SubjectKeep == 57

\* The bytes of a character in UTF-8, and str::len(): the bytes of a string
Utf8Len(c) == IF c < 128 THEN 1 ELSE IF c < 2048 THEN 2 ELSE IF c < 65536 THEN 3 ELSE 4

RECURSIVE ByteLen(_)
ByteLen(s) == IF s = <<>> THEN 0 ELSE Utf8Len(Head(s)) + ByteLen(Tail(s))

\* str::trim(): the white space at both ends goes
IsWhite(c) == c \in {9, CH_LF, 11, 12, 13, CH_SPACE}

RECURSIVE TrimStart(_)
TrimStart(s) == IF s # <<>> /\ IsWhite(Head(s)) THEN TrimStart(Tail(s)) ELSE s

RECURSIVE TrimEnd(_)
TrimEnd(s) == IF s # <<>> /\ IsWhite(s[Len(s)]) THEN TrimEnd(DropLast(s)) ELSE s

Trim(s) == TrimEnd(TrimStart(s))

\* The prefixes of s, as numbers of characters, that take n bytes: one when
\* byte n ends a character (or n = 0), none when it lies inside a character
CharsInBytes(s, n) == {k \in 0..Len(s) : ByteLen(SubSeq(s, 1, k)) = n}

Ellipsis == <<CH_DOT, CH_DOT, CH_DOT>>

\* truncate_subject: &clean[..57] slices bytes and panics when byte 57 is not
\* the end of a character
truncate_subject(text) ==
    LET clean == Trim(text)
    IN IF ByteLen(clean) <= SubjectMax
       THEN [panic |-> FALSE, value |-> clean]
       ELSE IF CharsInBytes(clean, SubjectKeep) = {}
       THEN [panic |-> TRUE, value |-> <<>>]
       ELSE [panic |-> FALSE,
             value |-> SubSeq(clean, 1, CHOOSE k \in CharsInBytes(clean, SubjectKeep) : TRUE)
                          \o Ellipsis]

\* Comment bodies: a run of one character of one, two or three bytes, with
\* or without a space before and after it
MaxSubjectRun == 64
SubjectBodies ==
    {Rep(CH_SPACE, lead) \o Rep(c, n) \o Rep(CH_SPACE, trail) :
        c \in {CH_x, CH_e_acute, CH_euro}, n \in 0..MaxSubjectRun,
        lead \in {0, 1}, trail \in {0, 1}}

InitSubject ==
    /\ NoSite
    /\ \E body \in SubjectBodies :
        probe = [fn |-> "subject", pc |-> "in", body |-> body, panic |-> FALSE, out |-> <<>>]

Truncate ==
    /\ probe.pc = "in"
    /\ LET r == truncate_subject(probe.body)
       IN probe' = [probe EXCEPT !.pc = "out", !.panic = r.panic, !.out = r.value]
    /\ NoSiteChange

NextSubject == Truncate
SpecSubject == InitSubject /\ [][NextSubject]_vars

\* C29: the subject made from a body is made for every body: it is the
\* trimmed body when that has at most 60 characters, and otherwise some of
\* its leading characters followed by "..."; the call never panics.
C29_SubjectCountsCharacters ==
    probe.pc = "out" =>
        LET clean == Trim(probe.body)
        IN /\ ~probe.panic
           /\ Len(clean) <= SubjectMax => probe.out = clean
           /\ Len(clean) > SubjectMax =>
                 \E k \in 0..Len(clean) : probe.out = SubSeq(clean, 1, k) \o Ellipsis

-----------------------------------------------------------------------------
(* The shape of the stored thread paths. *)

\* The parts of s between its '.' characters
DotGroups(s) ==
    LET cuts == {0, Len(s) + 1} \cup {i \in 1..Len(s) : s[i] = CH_DOT}
    IN {SubSeq(s, a + 1, b - 1) :
           <<a, b>> \in {x \in cuts \X cuts :
                            x[1] < x[2] /\ ~\E k \in cuts : x[1] < k /\ k < x[2]}}

\* C30: in every state, every stored thread path ends with "/", and what
\* precedes the "/" is one or more groups separated by ".", each of two or
\* more characters from 0-9 and a-z; the number 0 is written "00".
C30_PathsAreDigitGroups ==
    /\ int_to_vancode(U32(0)) = <<CH_0, CH_0>>
    /\ \A c \in comments :
          /\ c.thread # <<>>
          /\ c.thread[Len(c.thread)] = CH_SLASH
          /\ \A g \in DotGroups(DropLast(c.thread)) : IsDigitGroup(g)

\* A reply stored under "00.00/" whose parent is no longer stored
C30_Witness ==
    \E c \in comments :
        /\ c.thread = PATH_00_00 /\ c.pid # 0 /\ find_by_cid(c.pid) = {}
        /\ DotGroups(DropLast(c.thread)) = {<<CH_0, CH_0>>}

-----------------------------------------------------------------------------
(* Top-level comments whose digit groups differ in width. *)

\* The numbers of the top-level comments that are still stored after the
\* first TopIssued + 1 of them were posted one at a time, "00/" to "zz/" and
\* then "100/", and any of them were deleted
TopIssued == VancodeRadix * VancodeRadix
TopNumbers == {0, 1, 35, 36, TopIssued - 1, TopIssued}

TopRow(k) ==
    CommentRow(k + 1, [IdleC EXCEPT !.nid = 1, !.uid = 1, !.status = COMMENT_PUBLISHED,
                                   !.ts = 1, !.thread = Append(int_to_vancode(U32(k)), CH_SLASH)])

TopRequest ==
    [authors |-> {[uid |-> 1, name |-> NULL]}, statuses |-> {COMMENT_PUBLISHED},
     maxCid |-> TopIssued + 2, maxTime |-> 1]

InitTopPath ==
    /\ node = {[nid |-> 1, vid |-> 1, type |-> "page", title |-> "a",
                 comment |-> COMMENT_NODE_READ_WRITE]}
    /\ revisions = {[vid |-> 1, nid |-> 1, uid |-> 1, title |-> "a", body |-> "x"]}
    /\ fieldData = {}
    /\ nextNid = 2
    /\ nextVid = 2
    /\ \E S \in SUBSET TopNumbers :
        /\ comments = {TopRow(k) : k \in S}
        /\ stats = {IF S = {} THEN StatsRow(1, 0, NULL, 0, 0)
                     ELSE StatsRow(1, 1, NULL, 1, Cardinality(S))}
    /\ nextCid = TopIssued + 2
    /\ now = 1
    /\ ctask = [t \in Tasks |-> IdleC]
    /\ ntask = NoContentTask
    /\ probe = NoProbe

NextTopPath ==
    \E t \in SeqTasks :
        \/ StartAdd(t, TopRequest) \/ CalcTop(t) \/ InsertComment(t)
        \/ CreateCount(t) \/ CreateStats(t)
SpecTopPath == InitTopPath /\ [][NextTopPath]_vars

TopValues(nid) ==
    {U32Value(vancode_to_int(TrimEndSlash(c.thread))) :
        c \in {x \in comments : x.nid = nid /\ x.pid = 0}}

\* C31: the path computed for a new top-level comment decodes to one more
\* than the greatest number among the stored top-level comments of the item,
\* whatever the widths of their digit groups.
C31_TopPathFollowsGreatestNumber ==
    \A t \in Tasks :
        (ctask[t].pc = "c_insert" /\ ctask[t].pid = 0 /\ TopValues(ctask[t].nid) # {})
        => \A m \in TopValues(ctask[t].nid) :
              (\A v \in TopValues(ctask[t].nid) : v <= m)
              => U32Value(vancode_to_int(TrimEndSlash(ctask[t].thread))) = m + 1

-----------------------------------------------------------------------------
(* Properties of interleaved requests. *)

\* C32: once two comment requests on the same content item are both
\* complete, whatever the order of their storage steps was, the comment_count
\* of the item's statistics row is the number of its published comments.
C32_CountAfterConcurrentRequests ==
    \A t \in Tasks, u \in Tasks :
        (/\ t # u
         /\ ctask[t].pc = "done" /\ ctask[u].pc = "done"
         /\ ctask[t].op \in {"create", "delete"} /\ ctask[u].op \in {"create", "delete"}
         /\ ctask[t].nid = ctask[u].nid)
        => \A s \in stats :
              s.nid = ctask[t].nid => s.comment_count = Cardinality(PublishedOf(s.nid))

\* C33: no step of a reply whose parent comment is not stored inserts a
\* comment, also when the parent went away after reply_submit had found it.
C33_ReplyToMissingParentWritesNothing ==
    [][\A t \in Tasks :
          (/\ ctask[t].op = "create" /\ ctask[t].pid # 0
           /\ ctask'[t] # ctask[t]
           /\ find_by_cid(ctask[t].pid) = {})
          => comments' = comments]_vars

-----------------------------------------------------------------------------
(* Replies below a comment whose replies have replies. *)

\* The site after a comment and three replies to it were posted one at a
\* time by one poster within one second: "00/", "00.00/", "00.01/", "00.02/"
DeepRow(cid, pid, thread) ==
    CommentRow(cid, [IdleC EXCEPT !.nid = 1, !.pid = pid, !.uid = 1,
                                 !.status = COMMENT_PUBLISHED, !.ts = 1, !.thread = thread])

DeepRequest == [ThreadRequest EXCEPT !.maxCid = MaxDeepCid]

InitDeep ==
    /\ node = {[nid |-> 1, vid |-> 1, type |-> "page", title |-> "a",
                 comment |-> COMMENT_NODE_READ_WRITE]}
    /\ revisions = {[vid |-> 1, nid |-> 1, uid |-> 1, title |-> "a", body |-> "x"]}
    /\ fieldData = {}
    /\ nextNid = 2
    /\ nextVid = 2
    /\ comments = {DeepRow(1, 0, PATH_00), DeepRow(2, 1, PATH_00_00), DeepRow(3, 1, PATH_00_01),
                   DeepRow(4, 1, ChildThreadFrom(PATH_00, {PATH_00_01}))}
    /\ stats = {StatsRow(1, 1, NULL, 1, 4)}
    /\ nextCid = 5
    /\ now = 1
    /\ ctask = [t \in Tasks |-> IdleC]
    /\ ntask = NoContentTask
    /\ probe = NoProbe

NextDeep == \E t \in SeqTasks : CommentOp(t, DeepRequest) \/ ReturnComment(t)
SpecDeep == InitDeep /\ [][NextDeep]_vars

\* C34: after comments were posted and deleted one at a time, no two stored
\* comments of a content item have the same thread path.
C34_SequentialPathsDistinct ==
    \A c \in comments, d \in comments :
        (c.cid # d.cid /\ c.nid = d.nid) => c.thread # d.thread

\* C35: in every state, a stored comment whose path is the path of another
\* stored comment of the item, without its "/", followed by ".", one digit
\* group and "/", is a reply to that comment.
C35_PathChildIsReply ==
    \A c \in comments, p \in comments :
        LET pre == Append(DropLast(p.thread), CH_DOT)
        IN (/\ c.nid = p.nid /\ c.cid # p.cid
            /\ StartsWith(c.thread, pre)
            /\ c.thread[Len(c.thread)] = CH_SLASH
            /\ IsDigitGroup(SubSeq(c.thread, Len(pre) + 1, Len(c.thread) - 1)))
           => c.pid = p.cid

-----------------------------------------------------------------------------
(* Required fields. *)

\* Forms submitted for the content type "survey", whose fields "rating"
\* (two values) and "subtitle" (one value) are both required
SurveyForms ==
    { (KeyMulti("rating", 0) :> S_7) @@ (KeySingle("subtitle") :> S_s1),
      (KeySingle("rating") :> S_7) @@ (KeySingle("subtitle") :> S_s1),
      (KeySingle("rating") :> S_7) @@ (KeyMulti("rating", 1) :> S_minus3)
          @@ (KeySingle("subtitle") :> S_s2),
      (KeySingle("rating") :> S_7) @@ (KeyMulti("rating", 0) :> S_7)
          @@ (KeyMulti("subtitle", 0) :> S_s1),
      (KeySingle("rating") :> <<>>) @@ (KeyMulti("rating", 0) :> <<>>)
          @@ (KeySingle("subtitle") :> S_s1) }

SurveyContent ==
    [types |-> {"survey"}, titles |-> {"a", "b"}, forms |-> SurveyForms,
     maxVid |-> MaxFieldVid, maxNid |-> 1]

NextRequired ==
    \E t \in SeqTasks :
        \/ StartCreate(t, SurveyContent) \/ NodeInsert(t)
        \/ StartUpdate(t, SurveyContent) \/ UpdateNode(t)
        \/ RevisionInsert(t) \/ SetVid(t)
        \/ FieldInfo(t) \/ FieldDelete(t) \/ FieldSave(t)
        \/ RejectCreate(t, SurveyContent)
        \/ RejectUpdate(t, SurveyContent)
        \/ ReturnContent(t)
SpecRequired == InitContent /\ [][NextRequired]_vars

\* The field has a non-empty input under a key that save_field_values reads
Filled(form, field) == \E d \in FieldDeltas(field) : HasInput(form, field, d)

\* C36: a create or update request with a title, for a known content type,
\* is refused for a required field exactly when some required field of the
\* type has no non-empty input under a key that save_field_values reads.
C36_RequiredMeansFilled ==
    \A t \in Tasks :
        (/\ ntask[t].op \in {"create", "update"}
         /\ ntask[t].type \in NodeTypes
         /\ ntask[t].title # ""
         /\ ntask[t].pc # "idle")
        => LET fields == with_field_info(ntask[t].type)
           IN (ntask[t].pc = "rejected" /\ ntask[t].err = "field_required")
              <=> \E i \in 1..Len(fields) :
                     fields[i].required = 1 /\ ~Filled(ntask[t].form, fields[i])

-----------------------------------------------------------------------------
(* Owners of rows. *)

\* C37: in every state, every stored revision belongs to a stored content
\* item and every stored field row belongs to a stored revision.
C37_RowsHaveOwners ==
    /\ \A r \in revisions : \E n \in node : n.nid = r.nid
    /\ \A f \in fieldData : \E r \in revisions : r.vid = f.vid

\* The site with one content item and one comment: comment requests, served
\* one at a time, and the deletion of the content item
NextSite ==
    \E t \in SeqTasks :
        \/ CommentOp(t, AnyRequest) \/ RejectAdd(t) \/ RejectReply(t) \/ ReturnComment(t)
        \/ StartDeleteNode(t) \/ DeleteNodeFields(t) \/ DeleteNodeRevisions(t)
        \/ DeleteNodeRow(t) \/ ReturnContent(t)
SpecSite == InitCommentOne /\ [][NextSite]_vars

\* C38: in every state, every stored comment and every statistics row
\* belongs to a stored content item; none is left when the item was deleted.
C38_CommentsHaveContent ==
    /\ \A c \in comments : \E n \in node : n.nid = c.nid
    /\ \A s \in stats : \E n \in node : n.nid = s.nid

\* C39: when every content request has run to its end, the title on each
\* content row is the title of the revision that the row's vid names.
C39_TitleIsHeadTitle ==
    (\A t \in Tasks : ntask[t].pc \in {"idle", "done"})
    => \A n \in node : \A r \in revisions : r.vid = n.vid => r.title = n.title

====
